---- MODULE Spec2Model ----
(***************************************************************************)
(* A model of the bytecodec engine: Marshal / Unmarshal, the per-kind      *)
(* codecs, the struct field resolver with its lengthref protocol, the      *)
(* container codecs and the pointer codec with its cycle guard.            *)
(*                                                                         *)
(* Representation.  A type is a sequence of tokens in prefix notation:     *)
(* <<"uint8">>, <<"*", "Node">>, <<"[]", "uint16">>, <<"[5]", "uint8">>.   *)
(* A value is: a BOOLEAN; an integer; a sequence of bytes (string, and a   *)
(* float as its IEEE-754 bit pattern, most significant byte first); a      *)
(* sequence of element values (array, slice); a sequence of field values   *)
(* in declaration order (struct); an address into the heap, 0 for nil      *)
(* (pointer); a record [dt, dv] of dynamic type and value (interface).     *)
(*                                                                         *)
(* The recursion of the Go code through ptrCoder is kept as an explicit    *)
(* call stack (one frame per active ptrCoder call); everything between two *)
(* pointer levels is evaluated by the recursive operators Encode / Decode. *)
(* Where these write CHOOSE y \in {e : r \in {d}} : TRUE they mean e with  *)
(* r standing for the value of d, which is then computed once.             *)
(***************************************************************************)
EXTENDS Integers, Sequences, FiniteSets, TLC

\* ------------------------------------------------------------------ bounds
\* longest pointer cycle / pointer chain placed in front of a shape
MaxCycleLen == 3
\* number of pointer levels a deep input lies beyond the detection threshold
DeepExtra == 2
\* deepest nesting of ptrCoder.decode calls the model follows
MaxDecodeDepth == 5

\* --------------------------------------------------------- program constants
startDetectingCyclesAfter == 1000

\* ------------------------------------------------------------------ helpers
Max(S) == CHOOSE m \in S : \A o \in S : o <= m

RECURSIVE Join(_)
\* bytes.Join(buf, []byte{})
Join(bufs) == IF bufs = <<>> THEN <<>> ELSE Head(bufs) \o Join(Tail(bufs))

\* ------------------------------------------------------------------- errors
\* an error value: its Go type or variable, and the tokens of its message
\* (for errors that carry a type, the message ends with the type)
NoErr == [kind |-> "none", info |-> <<>>]
UnsupportedTypeError(t) == [kind |-> "UnsupportedTypeError", info |-> t]
UnsupportedValueError(s, t) == [kind |-> "UnsupportedValueError", info |-> <<s>> \o t]
TagErr(s) == [kind |-> "TagErr", info |-> <<s>>]
LengthErr(s) == [kind |-> "LengthErr", info |-> <<s>>]
DataLengthErr == [kind |-> "DataLengthErr", info |-> <<"Not enough data length">>]
\* the struct bytecodecError{e}, which Read and ReadByte hand to c.error
bytecodecError(e) == [kind |-> "bytecodecError", info |-> <<e.kind>> \o e.info]
InvalidUnmarshalError(t) == [kind |-> "InvalidUnmarshalError", info |-> t]
\* the errors that wrap the error e a user's MarshalBytes / UnmarshalBytes
\* returned for a value of type t
MarshalerError(t, e) == [kind |-> "MarshalerError", info |-> <<e>> \o t]
UnmarshalerError(t, e) == [kind |-> "UnmarshalerError", info |-> <<e>> \o t]
\* a Go runtime panic that is not a bytecodecError: CodecState.code re-panics
\* and the panic leaves Marshal / Unmarshal
RuntimePanic(s) == [kind |-> "RuntimePanic", info |-> <<s>>]

\* -------------------------------------------------------------------- types
StructNames == {"Scalars", "Abc", "AbcT", "LenData", "LenDataT", "LenDataTail",
                "LTag", "LTagT", "Node", "Indirect", "FS", "UF", "Ign", "Pair", "HidF",
                "ignoreTag", "Opt", "bytecoder", "failcoder", "emptyByteCoder",
                "TwoFail", "RecA", "RecB", "LenStr", "SlTail", "LenNone"}

\* the struct types with user-defined MarshalBytes (value receiver) and
\* UnmarshalBytes (pointer receiver): the methods of bytecoder are those of
\* the tests, the methods of failcoder return an error
ByteCoders == {"bytecoder", "failcoder"}

\* t.Implements(bytecoderType): the method set of *T holds both methods, the
\* method set of T lacks UnmarshalBytes
Implements(t) == Len(t) = 2 /\ t[1] = "*" /\ t[2] \in ByteCoders

ArrayLen == ("[2]" :> 2) @@ ("[5]" :> 5)

\* reflect.Type.Kind()
Kind(t) ==
  CASE Head(t) = "*" -> "Ptr"
    [] Head(t) = "[]" -> "Slice"
    [] Head(t) \in DOMAIN ArrayLen -> "Array"
    [] Head(t) \in StructNames -> "Struct"
    [] Head(t) = "bool" -> "Bool"
    [] Head(t) = "int8" -> "Int8"
    [] Head(t) = "int16" -> "Int16"
    [] Head(t) = "int32" -> "Int32"
    [] Head(t) = "int64" -> "Int64"
    [] Head(t) = "int" -> "Int"
    [] Head(t) = "uint8" -> "Uint8"
    [] Head(t) = "uint16" -> "Uint16"
    [] Head(t) = "uint32" -> "Uint32"
    [] Head(t) = "uint64" -> "Uint64"
    [] Head(t) = "uint" -> "Uint"
    [] Head(t) = "uintptr" -> "Uintptr"
    [] Head(t) = "float32" -> "Float32"
    [] Head(t) = "float64" -> "Float64"
    [] Head(t) = "string" -> "String"
    [] Head(t) = "interface" -> "Interface"
    [] OTHER -> "Chan"

\* reflect.Type.Elem()
Elem(t) == Tail(t)

\* ------------------------------------------------------------- struct tags
\* A tag value (what StructTag.Get returns) is kept as the list strings.Split
\* makes of it: split at ";" and each piece split at ":".
EmptyTag == << <<"">> >>
IgnoreTag == << <<"-">> >>
LengthTag(s) == << <<"length", s>> >>
LengthrefTag(s) == << <<"lengthref", s>> >>

\* reflect.StructField
SF(name, typ) ==
  [name |-> name, typ |-> typ, pkgPath |-> "", anonymous |-> FALSE,
   key |-> "", val |-> EmptyTag]
Tagged(sf, key, val) == [sf EXCEPT !.key = key, !.val = val]
Unexported(sf) == [sf EXCEPT !.pkgPath = "bytecodec"]
Embedded(sf) == [sf EXCEPT !.anonymous = TRUE]

\* sf.Tag.Get(key)
TagGet(sf, key) == IF sf.key = key THEN sf.val ELSE EmptyTag

\* the struct types of the model: reflect.Type.Field(i) for i = 1..NumField
StructFields(name) ==
  CASE name = "Scalars" ->
         << SF("A", <<"uint16">>), SF("B", <<"bool">>), SF("C", <<"int8">>),
            SF("D", <<"int32">>) >>
    [] name = "Abc" ->
         << SF("A", <<"uint16">>),
            Tagged(SF("B", <<"string">>), "json", LengthTag("4")),
            SF("C", <<"[5]", "uint8">>) >>
    [] name = "AbcT" ->
         << SF("A", <<"uint16">>),
            Tagged(SF("B", <<"string">>), "bytecodec", LengthTag("4")),
            SF("C", <<"[5]", "uint8">>) >>
    [] name = "LenData" ->
         << Tagged(SF("Len", <<"uint8">>), "json", LengthrefTag("Data")),
            SF("Data", <<"string">>) >>
    [] name = "LenDataT" ->
         << Tagged(SF("Len", <<"uint8">>), "bytecodec", LengthrefTag("Data")),
            SF("Data", <<"string">>) >>
    [] name = "LenDataTail" ->
         << Tagged(SF("Len", <<"uint8">>), "json", LengthrefTag("Data")),
            SF("Data", <<"string">>), SF("Tail", <<"uint8">>) >>
    [] name = "LTag" ->
         << Tagged(SF("Slice", <<"[]", "uint16">>), "json", LengthTag("4")) >>
    [] name = "LTagT" ->
         << Tagged(SF("Slice", <<"[]", "uint16">>), "bytecodec", LengthTag("4")) >>
    [] name = "Node" ->
         << SF("Ptr1", <<"*", "Node">>), SF("Ptr2", <<"*", "Node">>),
            SF("V", <<"uint8">>) >>
    [] name = "Indirect" ->
         << SF("Ptrs", <<"[]", "interface">>) >>
    [] name = "FS" ->
         << SF("A", <<"uint8">>), SF("F", <<"float64">>) >>
    [] name = "UF" ->
         << SF("U", <<"chan">>), SF("F", <<"float32">>) >>
    [] name = "Ign" ->
         << SF("A", <<"uint8">>), Unexported(SF("b", <<"uint8">>)),
            Embedded(SF("Small", <<"uint8">>)),
            Tagged(SF("C", <<"uint8">>), "json", IgnoreTag),
            SF("D", <<"uint8">>) >>
    [] name = "HidF" ->
         << SF("A", <<"uint8">>), Unexported(SF("f", <<"float64">>)) >>
    [] name = "Pair" ->
         << Tagged(SF("N", <<"uint8">>), "json", LengthTag("1")),
            Tagged(SF("K", <<"uint16">>), "json", LengthTag("1")) >>
    [] name = "ignoreTag" ->
         << SF("Uin16", <<"uint16">>),
            Tagged(SF("Uint32", <<"uint32">>), "bytecodec", IgnoreTag),
            SF("Uint64", <<"uint64">>) >>
    [] name = "Opt" ->
         << SF("A", <<"uint8">>), SF("P", <<"*", "uint16">>), SF("B", <<"uint8">>) >>
    [] name \in ByteCoders ->
         << Unexported(SF("s", <<"string">>)) >>
    [] name = "emptyByteCoder" ->
         << SF("ByteCoder", <<"*", "bytecoder">>) >>
    [] name = "TwoFail" ->
         << SF("F", <<"float64">>), SF("U", <<"*", "failcoder">>), SF("G", <<"chan">>) >>
    [] name = "RecA" ->
         << SF("B", <<"*", "RecB">>) >>
    [] name = "RecB" ->
         << SF("A", <<"*", "RecA">>) >>
    [] name = "LenStr" ->
         << Tagged(SF("N", <<"uint8">>), "json", LengthTag("1")),
            Tagged(SF("S", <<"string">>), "json", LengthTag("1")) >>
    [] name = "SlTail" ->
         << SF("S", <<"[]", "uint8">>), SF("T", <<"uint8">>) >>
    [] name = "LenNone" ->
         << Tagged(SF("Len", <<"uint8">>), "json", LengthrefTag("Nope")),
            SF("Data", <<"string">>) >>

\* strconv.Atoi on the numerals the tags use
Numerals == ("0" :> 0) @@ ("1" :> 1) @@ ("2" :> 2) @@ ("4" :> 4) @@ ("5" :> 5)
Atoi(s) == IF s \in DOMAIN Numerals THEN [n |-> Numerals[s], ok |-> TRUE]
           ELSE [n |-> 0, ok |-> FALSE]

RECURSIVE Setting(_, _)
\* settings[key] after the loop of parseTag: the value of the last piece
\* "key:value" of the tag, "" when there is none
Setting(tag, key) ==
  IF tag = <<>> THEN ""
  ELSE LET s == tag[Len(tag)] IN
       IF Len(s) >= 2 /\ s[1] = key THEN s[2]
       ELSE Setting(SubSeq(tag, 1, Len(tag) - 1), key)

\* the zero tagOptions{} that CodecState.code passes to the top codec
NoTag == [length |-> 0, lengthref |-> "", gbk |-> FALSE, gbk18030 |-> FALSE, bcd |-> 0]

parseTag(tag) ==
  LET lengthref == Setting(tag, "length")
      a == Atoi(lengthref)
      b == Atoi(Setting(tag, "bcd"))
  IN [length |-> IF ~a.ok THEN a.n ELSE 0,
      lengthref |-> IF ~a.ok THEN "" ELSE lengthref,
      gbk |-> Setting(tag, "gbk") # "",
      gbk18030 |-> Setting(tag, "gbk18030") # "",
      bcd |-> IF b.ok THEN b.n ELSE 0]

RECURSIVE typeFieldsFrom(_, _)
typeFieldsFrom(sfs, i) ==
  IF i > Len(sfs) THEN <<>>
  ELSE LET sf == sfs[i]
           isUnexported == sf.pkgPath # ""
           tag == TagGet(sf, "json")
       IN IF isUnexported \/ sf.anonymous THEN typeFieldsFrom(sfs, i + 1)
          ELSE IF tag = IgnoreTag THEN typeFieldsFrom(sfs, i + 1)
          ELSE << [name |-> sf.name, index |-> i, tagOptions |-> parseTag(tag),
                   codec |-> sf.typ] >> \o typeFieldsFrom(sfs, i + 1)

\* typeFields(t): the field list of a struct type; field.codec is kept as the
\* field's type, whose codec typeCodec resolves
typeFields(name) == typeFieldsFrom(StructFields(name), 1)

\* ----------------------------------------------------- integers and floats
RECURSIVE BE(_, _)
\* the n low-order bytes of v in two's complement, most significant first:
\* binary.BigEndian.PutUintN(b, uintN(v)), and byte(v) for n = 1
BE(v, n) == IF n = 0 THEN <<>> ELSE Append(BE(v \div 256, n - 1), v % 256)

RECURSIVE Horner(_, _)
Horner(acc, b) == IF b = <<>> THEN acc ELSE Horner(acc * 256 + Head(b), Tail(b))

\* binary.BigEndian.UintN(b)
UBE(b) == Horner(0, b)
\* intN(binary.BigEndian.UintN(b))
SBE(b) == Horner(IF b[1] >= 128 THEN b[1] - 256 ELSE b[1], Tail(b))

RECURSIVE Pow2(_)
Pow2(e) == IF e = 0 THEN 1 ELSE 2 * Pow2(e - 1)
RECURSIVE Log2(_)
Log2(n) == IF n < 2 THEN 0 ELSE 1 + Log2(n \div 2)

\* math.IsInf(f, 0) || math.IsNaN(f) on the bit pattern: exponent all ones
NonFinite32(b) == b[1] % 128 = 127 /\ b[2] >= 128
\* math.IsNaN(f) alone, which lets the infinities through
OnlyNaN64(b) == b[1] % 128 = 127 /\ b[2] \div 16 = 15 /\ b # <<b[1], 240, 0, 0, 0, 0, 0, 0>>
NonFinite64(b) == b[1] % 128 = 127 /\ b[2] \div 16 = 15

\* math.Float32bits(float32(n)) and math.Float64bits(float64(n)) of a small
\* natural n (exact below 2^20), as bytes
F32FromInt(n) ==
  IF n = 0 THEN <<0, 0, 0, 0>>
  ELSE LET e == Log2(n) IN BE((127 + e) * Pow2(23) + (n - Pow2(e)) * Pow2(23 - e), 4)
F64FromInt(n) ==
  IF n = 0 THEN <<0, 0, 0, 0, 0, 0, 0, 0>>
  ELSE LET e == Log2(n)
       IN BE((1023 + e) * Pow2(20) + (n - Pow2(e)) * Pow2(20 - e), 4) \o <<0, 0, 0, 0>>

\* ------------------------------------------------------------------- codecs
\* newTypeCodec(t, allowAddr): the codec chosen for a type.  A condAddrCoder
\* is the pair of addrByteCoderCoder and newTypeCodec(t, false)
newTypeCodec(t, allowAddr) ==
  CASE Kind(t) # "Ptr" /\ allowAddr /\ Implements(<<"*">> \o t) -> "condAddrCoder"
    [] Implements(t) -> "byteCoderCoder"
    [] Kind(t) = "Bool" -> "boolCoder"
    [] Kind(t) = "Int8" -> "int8Coder"
    [] Kind(t) = "Int16" -> "int16Coder"
    [] Kind(t) = "Int32" -> "int32Coder"
    [] Kind(t) \in {"Int", "Int64"} -> "int64Coder"
    [] Kind(t) = "Uint8" -> "uint8Coder"
    [] Kind(t) = "Uint16" -> "uint16Coder"
    [] Kind(t) = "Uint32" -> "uint32Coder"
    [] Kind(t) \in {"Uint", "Uint64", "Uintptr"} -> "uint64Coder"
    [] Kind(t) = "Float32" -> "float32Coder"
    [] Kind(t) = "Float64" -> "float64Coder"
    [] Kind(t) = "String" -> "stringCoder"
    [] Kind(t) = "Interface" -> "interfaceCoder"
    [] Kind(t) = "Struct" -> "structCoder"
    [] Kind(t) = "Array" -> "arrayCoder"
    [] Kind(t) = "Slice" -> "sliceCoder"
    [] Kind(t) = "Ptr" -> "ptrCoder"
    [] OTHER -> "unsupportedTypeCoder"

\* typeCodec(t): the cached codec of a type is the one newTypeCodec builds
typeCodec(t) == newTypeCodec(t, TRUE)

\* valueCodec(v) for a value of dynamic type t; <<"nil">> is the invalid
\* reflect.Value of a nil interface
valueCodec(t) == IF Head(t) = "nil" THEN "invalidValueCoder" ELSE typeCodec(t)

\* codec.typ()
typ(c) ==
  CASE c = "boolCoder" -> "Bool"
    [] c = "int8Coder" -> "Int8"
    [] c = "int16Coder" -> "Int16"
    [] c = "int32Coder" -> "Int32"
    [] c = "int64Coder" -> "Int64"
    [] c = "uint8Coder" -> "Uint8"
    [] c = "uint16Coder" -> "Uint16"
    [] c = "uint32Coder" -> "Uint32"
    [] c = "uint64Coder" -> "Uint64"
    [] c = "float32Coder" -> "Float32"
    [] c = "float64Coder" -> "Float64"
    [] c = "stringCoder" -> "String"
    [] c = "interfaceCoder" -> "Interface"
    [] c = "structCoder" -> "Struct"
    [] c = "arrayCoder" -> "Array"
    [] c = "sliceCoder" -> "Slice"
    [] c = "ptrCoder" -> "Ptr"
    [] OTHER -> "Invalid"

\* bytes written by the fixed-width integer codecs
IntWidth(c) ==
  CASE c \in {"int8Coder", "uint8Coder"} -> 1
    [] c \in {"int16Coder", "uint16Coder"} -> 2
    [] c \in {"int32Coder", "uint32Coder"} -> 4
    [] c \in {"int64Coder", "uint64Coder"} -> 8
IntCoders == {"int8Coder", "int16Coder", "int32Coder", "int64Coder",
              "uint8Coder", "uint16Coder", "uint32Coder", "uint64Coder"}
SignedCoders == {"int8Coder", "int16Coder", "int32Coder", "int64Coder"}

\* the bytes the integer codecs of C2 would write least significant byte first
intBytesLittleEndian(c, v) ==
  [i \in 1..IntWidth(c) |-> BE(v, IntWidth(c))[IntWidth(c) + 1 - i]]
\* intNCoder.encode / uintNCoder.encode: the bytes written for the value v
intBytes(c, v) == BE(v, IntWidth(c))

\* structCoder.findref: the LAST field whose lengthref option equals f's
findref(list, f) ==
  LET m == {j \in 1..Len(list) : f.tagOptions.lengthref = list[j].tagOptions.lengthref}
  IN IF m = {} THEN [found |-> FALSE, refindex |-> 0]
     ELSE [found |-> TRUE, refindex |-> Max(m)]

\* structCoder.existLengthref
existLengthref(list, f) ==
  \E j \in 1..Len(list) : f.name = list[j].tagOptions.lengthref

\* the length of the target converted to the holder's kind
\* (the switch of encodeLengthref); ok = FALSE is the default branch
lengthValue(k, length) ==
  CASE k = "Int8" -> [ok |-> TRUE, v |-> SBE(BE(length, 1))]
    [] k = "Int16" -> [ok |-> TRUE, v |-> SBE(BE(length, 2))]
    [] k = "Int32" -> [ok |-> TRUE, v |-> SBE(BE(length, 4))]
    [] k \in {"Int", "Int64"} -> [ok |-> TRUE, v |-> SBE(BE(length, 8))]
    [] k = "Uint8" -> [ok |-> TRUE, v |-> UBE(BE(length, 1))]
    [] k = "Uint16" -> [ok |-> TRUE, v |-> UBE(BE(length, 2))]
    [] k = "Uint32" -> [ok |-> TRUE, v |-> UBE(BE(length, 4))]
    [] k \in {"Uint", "Uint64", "Uintptr"} -> [ok |-> TRUE, v |-> UBE(BE(length, 8))]
    [] k = "Float32" -> [ok |-> TRUE, v |-> F32FromInt(length)]
    [] k = "Float64" -> [ok |-> TRUE, v |-> F64FromInt(length)]
    [] OTHER -> [ok |-> FALSE, v |-> 0]

\* ------------------------------------------------------------------- encode
\* Result of encoding one value into a CodecState:
\*   st = "ok"   buf is the buffer afterwards, k the number of non-nil pointers
\*               met so far in the frame
\*   st = "err"  c.error(e) was called (the panic that CodecState.code recovers)
\*   st = "need" the walk reached a non-nil pointer whose ptrCoder.encode call
\*               has not run yet: nd says which
EOk(buf, k) == [st |-> "ok", buf |-> buf, k |-> k, e |-> NoErr, nd |-> <<>>]
EFail(e) == [st |-> "err", buf |-> <<>>, k |-> 0, e |-> e, nd |-> <<>>]
ENeed(t, a, to, k) ==
  [st |-> "need", buf |-> <<>>, k |-> k, e |-> NoErr, nd |-> [t |-> t, a |-> a, to |-> to]]

RECURSIVE Encode(_, _, _, _, _, _)
RECURSIVE EncElems(_, _, _, _, _, _, _)
RECURSIVE EncFields(_, _, _, _, _, _)

\* a float codec that writes the bytes of every value and never fails
floatEncodeAny(c, v, buf, k) == EOk(buf \o v, k)
\* float32Coder.encode / float64Coder.encode
floatEncode(c, v, buf, k) ==
  IF (c = "float32Coder" /\ NonFinite32(v)) \/ (c = "float64Coder" /\ NonFinite64(v))
  THEN EFail(UnsupportedValueError("float", <<>>))
  ELSE EOk(buf \o v, k)

\* stringCoder.encode, the raw-bytes path
stringEncode(v, to, buf, k) ==
  IF to.length # 0 /\ Len(v) # to.length
  THEN EFail(LengthErr("string"))
  ELSE EOk(buf \o v, k)

\* the error a ByteCoder of the inputs returns from its methods
UserErr == "refused"

\* MarshalBytes of the ByteCoder type name with receiver bc, on a CodecState
\* holding buf: every byte of bc.s plus one for bytecoder; failcoder writes
\* nothing and returns an error
MarshalBytes(name, bc, buf) ==
  IF name = "failcoder" THEN [e |-> UserErr, buf |-> buf]
  ELSE [e |-> "", buf |-> buf \o [i \in 1..Len(bc[1]) |-> (bc[1][i] + 1) % 256]]

\* UnmarshalBytes of the ByteCoder type name on a CodecState holding buf: the
\* new receiver, every byte of c.Bytes() minus one as s; c keeps its bytes
UnmarshalBytes(name, buf) ==
  IF name = "failcoder" THEN [e |-> UserErr, bc |-> << <<>> >>]
  ELSE [e |-> "", bc |-> << [i \in 1..Len(buf) |-> (buf[i] + 255) % 256] >>]

\* byteCoderCoder.encode of the pointer v of type t: MarshalBytes has a value
\* receiver, and Go panics when it is called through a nil pointer
byteCoderEncode(t, v, buf, k, x) ==
  IF v = 0 THEN EFail(RuntimePanic("value method called using nil pointer"))
  ELSE LET m == MarshalBytes(t[2], x.heap[v], buf) IN
       IF m.e # "" THEN EFail(MarshalerError(t, m.e)) ELSE EOk(m.buf, k)

\* addrByteCoderCoder.encode of the addressable value v of type t: v.Addr()
\* is never nil
addrByteCoderEncode(t, v, buf, k) ==
  LET m == MarshalBytes(t[1], v, buf) IN
  IF m.e # "" THEN EFail(MarshalerError(t, m.e)) ELSE EOk(m.buf, k)

\* a pointer codec that writes a zero byte for a nil pointer
ptrEncodeNilByte(t, v, to, buf, k, x) ==
  IF v = 0 THEN EOk(Append(buf, 0), k)
  ELSE IF k < Len(x.res) THEN EOk(buf \o x.res[k + 1], k + 1)
  ELSE ENeed(t, v, to, k)
\* ptrCoder.encode as seen by the enclosing walk: nothing for nil; otherwise
\* the bytes the call appended when it has already run (x.res), else "need"
ptrEncode(t, v, to, buf, k, x) ==
  IF v = 0 THEN EOk(buf, k)
  ELSE IF k < Len(x.res) THEN EOk(buf \o x.res[k + 1], k + 1)
  ELSE ENeed(t, v, to, k)

\* structCoder.encodeLengthref; bufs is the per-field segment list
encodeLengthref(list, lengthref, ref, lengthrefIndex, refIndex, refv, bufs, k, x) ==
  CHOOSE y \in
    { IF r.st # "ok" THEN [r EXCEPT !.buf = bufs]
      ELSE LET refbytes == r.buf
               lv == lengthValue(typ(typeCodec(lengthref.codec)), Len(refbytes))
           IN IF ~lv.ok THEN [EFail(TagErr("lengthref type is invalid")) EXCEPT !.buf = bufs]
              ELSE LET q == Encode(lengthref.codec, lv.v, lengthref.tagOptions, <<>>, r.k, x)
                   IN IF q.st # "ok" THEN [q EXCEPT !.buf = bufs]
                      ELSE [q EXCEPT !.buf = [[bufs EXCEPT ![lengthrefIndex] = q.buf]
                                                 EXCEPT ![refIndex] = refbytes]]
      : r \in {Encode(ref.codec, refv, ref.tagOptions, <<>>, k, x)} } : TRUE

\* the loop of structCoder.encode from field i on; the result's buf is the
\* per-field segment list
EncFields(list, v, i, bufs, k, x) ==
  IF i > Len(list) THEN EOk(bufs, k)
  ELSE LET f == list[i] IN
       IF f.tagOptions.lengthref # ""
       THEN LET fr == findref(list, f) IN
            IF ~fr.found THEN EFail(TagErr("lengthref not found"))
            ELSE LET ref == list[fr.refindex] IN
                 CHOOSE y \in
                   { IF r.st # "ok" THEN r ELSE EncFields(list, v, i + 1, r.buf, r.k, x)
                     : r \in {encodeLengthref(list, f, ref, i, fr.refindex,
                                              v[ref.index], bufs, k, x)} } : TRUE
       ELSE IF existLengthref(list, f) THEN EncFields(list, v, i + 1, bufs, k, x)
       ELSE CHOOSE y \in
              { IF r.st # "ok" THEN r
                ELSE EncFields(list, v, i + 1, [bufs EXCEPT ![i] = r.buf], r.k, x)
                : r \in {Encode(f.codec, v[f.index], f.tagOptions, <<>>, k, x)} } : TRUE

\* the element loop of arrayCoder.encode / sliceCoder.encode from index i on
EncElems(et, v, to, i, buf, k, x) ==
  IF i > Len(v) THEN EOk(buf, k)
  ELSE CHOOSE y \in
         { IF r.st # "ok" THEN r ELSE EncElems(et, v, to, i + 1, r.buf, r.k, x)
           : r \in {Encode(et, v[i], to, buf, k, x)} } : TRUE

\* codec.encode(c, v, to) of the codec of type t, c holding buf.
\* x.fc is the field cache, x.res the bytes appended by the pointer calls of
\* this frame that have returned, x.heap the memory pointers refer to, and
\* x.can whether v is addressable; condAddrCoder.encode chooses by it
Encode(t, v, to, buf, k, x) ==
  LET c0 == valueCodec(t)
      c == IF c0 # "condAddrCoder" THEN c0
           ELSE IF x.can THEN "addrByteCoderCoder" ELSE newTypeCodec(t, FALSE)
  IN
  CASE c = "invalidValueCoder" -> EOk(buf, k)
    [] c = "byteCoderCoder" -> byteCoderEncode(t, v, buf, k, x)
    [] c = "addrByteCoderCoder" -> addrByteCoderEncode(t, v, buf, k)
    [] c = "boolCoder" -> EOk(Append(buf, IF v THEN 1 ELSE 0), k)
    [] c \in IntCoders -> EOk(buf \o intBytes(c, v), k)
    [] c \in {"float32Coder", "float64Coder"} -> floatEncode(c, v, buf, k)
    [] c = "stringCoder" -> stringEncode(v, to, buf, k)
    [] c = "interfaceCoder" ->
         IF v.dt = <<>> THEN EOk(buf, k)
         ELSE Encode(v.dt, v.dv, to, buf, k, [x EXCEPT !.can = FALSE])
    [] c = "structCoder" ->
         LET list == x.fc[Head(t)] IN
         CHOOSE y \in
           { IF r.st # "ok" THEN r ELSE EOk(buf \o Join(r.buf), r.k)
             : r \in {EncFields(list, v, 1, [j \in 1..Len(list) |-> <<>>], k, x)} } : TRUE
    [] c \in {"arrayCoder", "sliceCoder"} ->
         CHOOSE y \in
           { IF r.st # "ok" THEN r
             ELSE IF to.length # 0 /\ Len(r.buf) - Len(buf) # to.length
                  THEN EFail(LengthErr("container"))
                  ELSE r
             : r \in {EncElems(Elem(t), v, to, 1, buf, k,
                               [x EXCEPT !.can = @ \/ c = "sliceCoder"])} } : TRUE
    [] c = "ptrCoder" -> ptrEncode(t, v, to, buf, k, x)
    [] OTHER -> EFail(UnsupportedTypeError(t))

\* ------------------------------------------------------------------- decode
RECURSIVE Zeros(_)
Zeros(n) == IF n <= 0 THEN <<>> ELSE Append(Zeros(n - 1), 0)

RECURSIVE Zero(_)
\* reflect.Zero(t)
Zero(t) ==
  CASE Kind(t) = "Bool" -> FALSE
    [] Kind(t) = "Float32" -> Zeros(4)
    [] Kind(t) = "Float64" -> Zeros(8)
    [] Kind(t) = "String" -> <<>>
    [] Kind(t) = "Slice" -> <<>>
    [] Kind(t) = "Interface" -> [dt |-> <<>>, dv |-> 0]
    [] Kind(t) = "Array" -> [i \in 1..ArrayLen[Head(t)] |-> Zero(Elem(t))]
    [] Kind(t) = "Struct" ->
         LET sfs == StructFields(Head(t)) IN [i \in 1..Len(sfs) |-> Zero(sfs[i].typ)]
    [] OTHER -> 0

\* CodecState.Read(p) with len(p) = n, and ReadByte for n = 1, on a buffer
\* holding buf: bytes.Buffer.Read fails only on an empty buffer; otherwise it
\* copies what there is and the rest of p stays zero
Read(buf, n) ==
  IF n > 0 /\ buf = <<>> THEN [ok |-> FALSE, p |-> <<>>, rest |-> buf]
  ELSE LET m == IF n < Len(buf) THEN n ELSE Len(buf)
       IN [ok |-> TRUE, p |-> SubSeq(buf, 1, m) \o Zeros(n - m),
           rest |-> SubSeq(buf, m + 1, Len(buf))]

\* int(fv.Float()) of a finite float32 / float64 pattern of small magnitude
IntFromF32(b) ==
  LET u == UBE(<<b[1] % 128, b[2], b[3], b[4]>>)
      e == u \div Pow2(23)
      m == Pow2(23) + (u % Pow2(23))
      a == IF e < 127 THEN 0
           ELSE IF e - 127 <= 23 THEN m \div Pow2(23 - (e - 127))
           ELSE m * Pow2(e - 127 - 23)
  IN IF b[1] >= 128 THEN 0 - a ELSE a
IntFromF64(b) ==
  LET u == UBE(<<b[1] % 128, b[2], b[3], b[4]>>)
      e == u \div Pow2(20)
      m == Pow2(20) + (u % Pow2(20))
      a == IF e < 1023 THEN 0
           ELSE IF e - 1023 <= 20 THEN m \div Pow2(20 - (e - 1023))
           ELSE m * Pow2(e - 1023 - 20)
  IN IF b[1] >= 128 THEN 0 - a ELSE a

\* the switch of structCoder.decode: the holder's current value as an int
holderLength(k, fv) ==
  CASE k \in {"Int8", "Int16", "Int32", "Int", "Int64"} -> [ok |-> TRUE, n |-> fv]
    [] k \in {"Uint8", "Uint16", "Uint32", "Uint", "Uint64", "Uintptr"} -> [ok |-> TRUE, n |-> fv]
    [] k = "Float32" -> [ok |-> TRUE, n |-> IntFromF32(fv)]
    [] k = "Float64" -> [ok |-> TRUE, n |-> IntFromF64(fv)]
    [] OTHER -> [ok |-> FALSE, n |-> 0]

\* The state a decode threads: buf, the unread bytes of the CodecState; fc, the
\* field cache; k, the number of pointer calls met so far in the frame; hw,
\* the stores the UnmarshalBytes calls of the frame made through pointers,
\* <<address, value>> in the order made.
\* Result of decoding one value:
\*   st = "ok"    val is the value afterwards
\*   st = "err"   c.error(e) or a runtime panic; val is what had been stored
\*   st = "need"  the walk reached a ptrCoder.decode call that has not run
\*   st = "susp"  the walk is inside a ptrCoder.decode call that has not returned
\*   st = "hang"  the walk is in a loop that never ends
DSt(buf, fc, k) == [buf |-> buf, fc |-> fc, k |-> k, hw |-> <<>>]
DOk(val, s) == [st |-> "ok", val |-> val, s |-> s, e |-> NoErr, nd |-> <<>>]
DFail(val, s, e) == [st |-> "err", val |-> val, s |-> s, e |-> e, nd |-> <<>>]
DNeed(val, s, t, to) ==
  [st |-> "need", val |-> val, s |-> s, e |-> NoErr, nd |-> [t |-> t, a |-> val, to |-> to]]
DSusp(val, s) == [st |-> "susp", val |-> val, s |-> s, e |-> NoErr, nd |-> <<>>]
DHang(val, s) == [st |-> "hang", val |-> val, s |-> s, e |-> NoErr, nd |-> <<>>]

RECURSIVE Decode(_, _, _, _, _, _)
RECURSIVE DecFields(_, _, _, _, _, _)
RECURSIVE DecPass1(_, _, _, _)
RECURSIVE ArrayLoop(_, _, _, _, _, _, _)
RECURSIVE SliceLoop(_, _, _, _, _, _, _)

\* boolCoder.decode
boolDecode(v, can, s) ==
  LET r == Read(s.buf, 1) IN
  IF ~r.ok THEN DFail(v, s, bytecodecError(DataLengthErr))
  ELSE IF ~can THEN DFail(v, [s EXCEPT !.buf = r.rest], RuntimePanic("reflect: unaddressable value"))
  ELSE DOk(r.p[1] # 0, [s EXCEPT !.buf = r.rest])

\* the value a fixed-width integer codec makes of the bytes it read
intValue(c, p) == IF c \in SignedCoders THEN SBE(p) ELSE UBE(p)

\* intNCoder.decode / uintNCoder.decode
intDecode(c, v, can, s) ==
  LET r == Read(s.buf, IntWidth(c)) IN
  IF ~r.ok THEN DFail(v, s, bytecodecError(DataLengthErr))
  ELSE IF ~can THEN DFail(v, [s EXCEPT !.buf = r.rest], RuntimePanic("reflect: unaddressable value"))
  ELSE DOk(intValue(c, r.p), [s EXCEPT !.buf = r.rest])

\* float32Coder.decode / float64Coder.decode
floatDecode(c, v, can, s) ==
  LET r == Read(s.buf, IF c = "float32Coder" THEN 4 ELSE 8) IN
  IF ~r.ok THEN DFail(v, s, bytecodecError(DataLengthErr))
  ELSE IF ~can THEN DFail(v, [s EXCEPT !.buf = r.rest], RuntimePanic("reflect: unaddressable value"))
  ELSE DOk(r.p, [s EXCEPT !.buf = r.rest])

\* the region a string, array or slice decodes from: to.length bytes read
\* from c when a length is set, else c.Bytes(), which leaves c as it is
carve(to, buf) ==
  IF to.length # 0
  THEN IF to.length < 0
       THEN [e |-> RuntimePanic("makeslice: len out of range"), b |-> <<>>, rest |-> buf]
       ELSE LET r == Read(buf, to.length)
            IN IF ~r.ok THEN [e |-> bytecodecError(DataLengthErr), b |-> <<>>, rest |-> buf]
               ELSE [e |-> NoErr, b |-> r.p, rest |-> r.rest]
  ELSE [e |-> NoErr, b |-> buf, rest |-> buf]

\* stringCoder.decode, the raw-bytes path
stringDecode(v, to, can, s) ==
  LET cv == carve(to, s.buf) IN
  IF cv.e # NoErr THEN DFail(v, s, cv.e)
  ELSE IF ~can THEN DFail(v, [s EXCEPT !.buf = cv.rest], RuntimePanic("reflect: unaddressable value"))
  ELSE DOk(cv.b, [s EXCEPT !.buf = cv.rest])

\* byteCoderCoder.decode of the pointer v of type t: UnmarshalBytes has a
\* pointer receiver and is called whatever v is; bytecoder's assigns to the
\* field s of its receiver, which panics for a nil receiver
byteCoderDecode(t, v, s) ==
  LET m == UnmarshalBytes(t[2], s.buf) IN
  IF m.e # "" THEN DFail(v, s, UnmarshalerError(t, m.e))
  ELSE IF v = 0 THEN DFail(v, s, RuntimePanic("nil pointer dereference"))
  ELSE DOk(v, [s EXCEPT !.hw = Append(@, <<v, m.bc>>)])

\* addrByteCoderCoder.decode of the addressable value v of type t
addrByteCoderDecode(t, v, s) ==
  LET m == UnmarshalBytes(t[1], s.buf) IN
  IF m.e # "" THEN DFail(v, s, UnmarshalerError(t, m.e)) ELSE DOk(m.bc, s)

\* ptrCoder.decode as seen by the enclosing walk.  x.res[k] is the pointer
\* call number k of the frame: the address it decodes into, and once it has
\* returned the buffer and field cache it left
ptrDecode(t, v, to, can, s, x) ==
  IF v = 0 /\ ~can THEN DFail(v, s, RuntimePanic("reflect: unaddressable value"))
  ELSE IF s.k < Len(x.res)
       THEN LET c == x.res[s.k + 1] IN
            IF c.done
            THEN DOk(c.a, [s EXCEPT !.buf = c.buf, !.fc = c.fc, !.k = s.k + 1])
            ELSE DSusp(c.a, s)
       ELSE DNeed(v, s, t, to)

\* the first loop of structCoder.decode from field i on: every field with a
\* lengthref option stores its CURRENT value as the length option of the
\* field findref returns, in the cached field list
DecPass1(name, v, i, fc) ==
  IF i > Len(fc[name]) THEN [e |-> NoErr, fc |-> fc]
  ELSE LET f == fc[name][i] IN
       IF f.tagOptions.lengthref = "" THEN DecPass1(name, v, i + 1, fc)
       ELSE LET fr == findref(fc[name], f)
                hl == holderLength(typ(typeCodec(f.codec)), v[f.index])
            IN IF ~fr.found THEN [e |-> TagErr("lengthref not found"), fc |-> fc]
               ELSE IF ~hl.ok THEN [e |-> TagErr("lengthref type is invalid"), fc |-> fc]
               ELSE DecPass1(name, v, i + 1,
                             [fc EXCEPT ![name][fr.refindex].tagOptions.length = hl.n])

\* the second loop of structCoder.decode from field i on
DecFields(name, v, i, can, s, x) ==
  IF i > Len(s.fc[name]) THEN DOk(v, s)
  ELSE LET f == s.fc[name][i] IN
       CHOOSE y \in
         { IF r.st # "ok" THEN [r EXCEPT !.val = [v EXCEPT ![f.index] = r.val]]
           ELSE DecFields(name, [v EXCEPT ![f.index] = r.val], i + 1, can, r.s, x)
           : r \in {Decode(f.codec, v[f.index], f.tagOptions, can, s, x)} } : TRUE

\* the loop of arrayCoder.decode on the sub-state holding scc, and the
\* zeroing after it; the index i of the Go code is 0 throughout.
\* rest is the buffer of c, which the loop does not touch
ArrayLoop(et, v, to, can, scc, s, x) ==
  IF Len(v) = 0 THEN DOk(v, s)
  ELSE CHOOSE y \in
         { LET nv == [v EXCEPT ![1] = r.val]
               back == [r.s EXCEPT !.buf = s.buf]
           IN IF r.st # "ok" THEN [r EXCEPT !.val = nv, !.s = back]
              ELSE IF r.s.buf = <<>>
                   THEN IF ~can THEN DFail(nv, back, RuntimePanic("reflect: unaddressable value"))
                        ELSE DOk([j \in 1..Len(v) |-> Zero(et)], back)
              ELSE IF r.s.buf = scc /\ nv = v /\ r.s.fc = s.fc THEN DHang(nv, back)
              ELSE ArrayLoop(et, nv, to, can, r.s.buf, back, x)
           : r \in {Decode(et, v[1], to, can, [s EXCEPT !.buf = scc], x)} } : TRUE

\* arrayCoder.decode
arrayDecode(t, v, to, can, s, x) ==
  LET cv == carve(to, s.buf) IN
  IF cv.e # NoErr THEN DFail(v, s, cv.e)
  ELSE ArrayLoop(Elem(t), v, to, can, cv.b, [s EXCEPT !.buf = cv.rest], x)

\* the loop of sliceCoder.decode and the final v.Set; the index i of the Go
\* code is 0 throughout, so every element is decoded into v[0] and the slice
\* is replaced by an empty one at the end
SliceLoop(et, v, to, can, scc, s, x) ==
  IF Len(v) = 0 /\ ~can THEN DFail(v, s, RuntimePanic("reflect: unaddressable value"))
  ELSE LET v1 == IF Len(v) = 0 THEN <<Zero(et)>> ELSE v IN
       CHOOSE y \in
         { LET nv == [v1 EXCEPT ![1] = r.val]
               back == [r.s EXCEPT !.buf = s.buf]
           IN IF r.st # "ok" THEN [r EXCEPT !.val = nv, !.s = back]
              ELSE IF r.s.buf = <<>>
                   THEN IF ~can THEN DFail(nv, back, RuntimePanic("reflect: unaddressable value"))
                        ELSE DOk(<<>>, back)
              ELSE IF r.s.buf = scc /\ nv = v /\ r.s.fc = s.fc THEN DHang(nv, back)
              ELSE SliceLoop(et, nv, to, can, r.s.buf, back, x)
           : r \in {Decode(et, v1[1], to, TRUE, [s EXCEPT !.buf = scc], x)} } : TRUE

\* sliceCoder.decode
sliceDecode(t, v, to, can, s, x) ==
  LET cv == carve(to, s.buf) IN
  IF cv.e # NoErr THEN DFail(v, s, cv.e)
  ELSE SliceLoop(Elem(t), v, to, can, cv.b, [s EXCEPT !.buf = cv.rest], x)

\* structCoder.decode
structDecode(t, v, can, s, x) ==
  LET p1 == DecPass1(Head(t), v, 1, s.fc) IN
  IF p1.e # NoErr THEN DFail(v, [s EXCEPT !.fc = p1.fc], p1.e)
  ELSE DecFields(Head(t), v, 1, can, [s EXCEPT !.fc = p1.fc], x)

\* interfaceCoder.decode: the element of an interface is not settable
interfaceDecode(v, to, s, x) ==
  IF v.dt = <<>> THEN DOk(v, s)
  ELSE CHOOSE y \in
         { [r EXCEPT !.val = [v EXCEPT !.dv = r.val]]
           : r \in {Decode(v.dt, v.dv, to, FALSE, s, x)} } : TRUE

\* codec.decode(c, v, to) of the codec of type t; can says whether v is
\* addressable and settable; condAddrCoder.decode chooses by it
Decode(t, v, to, can, s, x) ==
  LET c0 == valueCodec(t)
      c == IF c0 # "condAddrCoder" THEN c0
           ELSE IF can THEN "addrByteCoderCoder" ELSE newTypeCodec(t, FALSE)
  IN
  CASE c = "invalidValueCoder" -> DOk(v, s)
    [] c = "byteCoderCoder" -> byteCoderDecode(t, v, s)
    [] c = "addrByteCoderCoder" -> addrByteCoderDecode(t, v, s)
    [] c = "boolCoder" -> boolDecode(v, can, s)
    [] c \in IntCoders -> intDecode(c, v, can, s)
    [] c \in {"float32Coder", "float64Coder"} -> floatDecode(c, v, can, s)
    [] c = "stringCoder" -> stringDecode(v, to, can, s)
    [] c = "interfaceCoder" -> interfaceDecode(v, to, s, x)
    [] c = "structCoder" -> structDecode(t, v, can, s, x)
    [] c = "arrayCoder" -> arrayDecode(t, v, to, can, s, x)
    [] c = "sliceCoder" -> sliceDecode(t, v, to, can, s, x)
    [] c = "ptrCoder" -> ptrDecode(t, v, to, can, s, x)
    [] OTHER -> DFail(v, s, UnsupportedTypeError(t))

\* ------------------------------------------------------------ the machine
VARIABLES
  pc,          \* "idle", "enc" (inside Marshal), "dec" (inside Unmarshal),
               \* "hang" (inside a call that never returns)
  op,          \* the call in progress or last completed, with its arguments
               \* (w is the memory an Unmarshal call found; Marshal leaves
               \* memory as it is)
  heap,        \* the values pointers refer to: heap[a] for address a
  stack,       \* the active ptrCoder calls, the root call of code() first
  ptrLevel,    \* pointerTrack.ptrLevel of the call's CodecState
  ptrSeen,     \* pointerTrack.ptrSeen
  out,         \* the bytes Marshal returned
  err,         \* the error the call returned
  fieldCache,  \* fieldCache: struct type -> structFields.list
  codecCache,  \* codecCache: type -> the codec stored for it
  tmp,         \* tmp[t][g]: the variable tmp of the typeCodec(t) call of
               \* goroutine g, which the placeholder that call made points to
  wg,          \* wg[t][g]: the counter of the WaitGroup of the same call
  thr,         \* the goroutines that resolve codecs and use them
  calls        \* the Marshal and Unmarshal calls that run side by side on
               \* the shared field cache

\* the state of one call and of the cache it uses
callVars == <<pc, op, heap, stack, ptrLevel, ptrSeen, out, err>>
\* the state of the codec registry and of the goroutines that use it
regVars == <<codecCache, tmp, wg, thr>>

vars == <<pc, op, heap, stack, ptrLevel, ptrSeen, out, err, fieldCache,
          codecCache, tmp, wg, thr, calls>>

\* a frame of the stack, one per active call: p and a are the type and the
\* address of the pointer a ptrCoder call was entered for (<<>> and 0 for the
\* root call), opts the tag options it was given when they are not the
\* default ones, res the results of the pointer calls it has made
Frame(p, a, to) ==
  [p |-> p, a |-> a, opts |-> IF to = NoTag THEN <<>> ELSE <<to>>, res |-> <<>>]

\* a frame of a decode: also the value v at the entry of the call, the unread
\* bytes and the field cache at its entry, whether the value is settable, and
\* the number nw of stores of its UnmarshalBytes calls that memory already has
DFrame(p, a, to, v, buf, fc, can) ==
  [p |-> p, a |-> a, opts |-> IF to = NoTag THEN <<>> ELSE <<to>>, res |-> <<>>,
   v |-> v, buf |-> buf, fc |-> fc, can |-> can, nw |-> 0]

\* the type of the value frame f codes, the options it codes it with, and the
\* identity ptrSeen knows its pointer by
frameType(f) == IF f.p = <<>> THEN op.t ELSE Elem(f.p)
frameOpts(f) == IF f.opts = <<>> THEN NoTag ELSE f.opts[1]
frameKey(f) == <<f.p, f.a>>

\* the frames of stack st whose calls run beyond the tracking threshold: the
\* call of frame i runs at ptrLevel i - 1
trackedKeys(st) ==
  {frameKey(st[i]) : i \in {j \in 1..Len(st) : j - 1 > startDetectingCyclesAfter}}

\* ------------------------------------------------------------------ inputs
Str(s) ==
  CASE s = "" -> <<>>
    [] s = "h" -> <<104>>
    [] s = "hi" -> <<104, 105>>
    [] s = "abc" -> <<97, 98, 99>>
    [] s = "abcd" -> <<97, 98, 99, 100>>

\* float64 / float32 bit patterns
NaN64 == <<127, 248, 0, 0, 0, 0, 0, 1>>
PosInf64 == <<127, 240, 0, 0, 0, 0, 0, 0>>
NegInf64 == <<255, 240, 0, 0, 0, 0, 0, 0>>
MaxFloat64 == <<127, 239, 255, 255, 255, 255, 255, 255>>
F64of15p1 == <<64, 46, 51, 51, 51, 51, 51, 51>>
NaN32 == <<127, 192, 0, 0>>
PosInf32 == <<127, 128, 0, 0>>
NegInf32 == <<255, 128, 0, 0>>
MaxFloat32 == <<127, 127, 255, 255>>
F32of15p2 == <<65, 115, 51, 51>>
NonFinite64s == {NaN64, PosInf64, NegInf64}
NonFinite32s == {NaN32, PosInf32, NegInf32}

IntTypes == {"int8", "int16", "int32", "int64", "int",
             "uint8", "uint16", "uint32", "uint64", "uint", "uintptr"}

\* sample values of the integer types (TLC integers are 32-bit: the 64-bit
\* and unsigned 32-bit types are sampled inside that range)
IntSamples(tn) ==
  CASE tn = "int8" -> {-128, -1, 0, 1, 127}
    [] tn = "uint8" -> {0, 1, 128, 255}
    [] tn = "int16" -> {-32768, -257, -256, -1, 0, 1, 255, 256, 4660, 32767}
    [] tn = "uint16" -> {0, 1, 255, 256, 4660, 32768, 65535}
    [] tn = "int32" -> {-2147483647 - 1, -65537, -1, 0, 1, 65536, 305419896, 2147483647}
    [] tn = "uint32" -> {0, 1, 65536, 305419896, 2147483647}
    [] tn \in {"int64", "int"} -> {-2147483647 - 1, -65537, -1, 0, 1, 305419896, 2147483647}
    [] tn \in {"uint64", "uint", "uintptr"} -> {0, 1, 256, 305419896, 2147483647}

NilIface == [dt |-> <<>>, dv |-> 0]
Iface(t, v) == [dt |-> t, dv |-> v]

In(t, v) == [t |-> t, v |-> v, w |-> <<>>]
InH(t, v, w) == [t |-> t, v |-> v, w |-> w]

\* a Node value
Node(p1, p2, val) == <<p1, p2, val>>

\* a heap of Node values: a chain 1 -> 2 -> ... -> n through Ptr1, followed by
\* the nodes of tail, whose addresses start at n + 1
ChainHeap(n, tail) == [a \in 1..n |-> Node(a + 1, 0, a % 256)] \o tail

\* the nodes of a cycle of length l placed at addresses base + 1 .. base + l
CycleNodes(base, l) ==
  [i \in 1..l |-> Node(IF i = l THEN base + 1 ELSE base + i + 1, 0, 10 + i)]
\* a node whose two pointer fields hold the same pointer, and its target
SharedNodes(base) == << Node(base + 2, base + 2, 7), Node(0, 0, 9) >>

PNode == <<"*", "Node">>
DeepLen == startDetectingCyclesAfter + DeepExtra

CycleInputs ==
  {InH(PNode, 1, ChainHeap(n, CycleNodes(n, l))) : n \in {0, 1}, l \in 1..MaxCycleLen}
  \cup {InH(<<"*", "Indirect">>, 1, << << <<Iface(<<"*", "Indirect">>, 1)>> >> >>)}
SharedInputs ==
  {InH(PNode, 1, ChainHeap(n, SharedNodes(n))) : n \in (0..MaxCycleLen) \cup {DeepLen}}
  \cup {InH(PNode, 1, ChainHeap(DeepLen, <<Node(0, 0, 9)>>))}

FloatInputs ==
  {In(<<"float64">>, f) : f \in NonFinite64s \cup {MaxFloat64, F64of15p1}}
  \cup {In(<<"float32">>, f) : f \in NonFinite32s \cup {MaxFloat32, F32of15p2}}
  \cup {In(<<"FS">>, <<a, f>>) : a \in {1}, f \in NonFinite64s \cup {F64of15p1}}
  \cup {In(<<"UF">>, <<0, f>>) : f \in {NaN32, F32of15p2}}
  \cup {In(<<"HidF">>, <<1, f>>) : f \in {NaN64, F64of15p1}}
  \cup {InH(<<"*", "float64">>, 1, <<f>>) : f \in {NaN64, F64of15p1}}
  \cup {InH(<<"*", "FS">>, 1, <<<<2, f>>>>) : f \in {NegInf64, F64of15p1}}
  \cup {In(<<"[]", "float64">>, <<F64of15p1, f>>) : f \in {PosInf64, MaxFloat64}}
  \cup {In(<<"[2]", "float32">>, <<f, F32of15p2>>) : f \in {NegInf32, MaxFloat32}}
  \cup {In(<<"Indirect">>, << <<Iface(<<"float64">>, f)>> >>) : f \in {NaN64, F64of15p1}}

ScalarInputs ==
  UNION {{In(<<tn>>, v) : v \in IntSamples(tn)} : tn \in IntTypes}
  \cup {In(<<"bool">>, b) : b \in BOOLEAN}
  \cup {In(<<"nil">>, 0), In(<<"chan">>, 0)}

CompositeInputs ==
  {In(<<"string">>, Str(s)) : s \in {"", "hi", "abcd"}}
  \cup {In(<<"[2]", "uint8">>, v) : v \in {<<0, 0>>, <<1, 0>>, <<1, 2>>}}
  \cup {In(<<"[5]", "uint8">>, <<1, 2, 3, 4, 0>>)}
  \cup {In(<<"[]", "uint16">>, v) : v \in {<<>>, <<1, 2>>}}
  \cup {In(<<"Scalars">>, <<a, b, c, d>>) :
          a \in {0, 513}, b \in BOOLEAN, c \in {-2, 3}, d \in {-65537, 7}}
  \cup {In(<<sn>>, <<a, Str(s), <<1, 2, 3, 4, 0>>>>) :
          sn \in {"Abc", "AbcT"}, a \in {1}, s \in {"abcd", "abc"}}
  \cup {In(<<sn>>, <<n, Str(s)>>) :
          sn \in {"LenData", "LenDataT"}, n \in {0, 2, 9}, s \in {"", "h", "hi"}}
  \cup {In(<<"LenDataTail">>, <<n, Str(s), 7>>) : n \in {0, 2}, s \in {"h", "hi"}}
  \cup {In(<<sn>>, << v >>) : sn \in {"LTag", "LTagT"}, v \in {<<1, 2>>, <<1>>}}
  \cup {In(<<"Ign">>, <<1, 2, 3, 4, 5>>)}
  \cup {In(<<"Pair">>, <<n, k>>) : n \in {0, 5}, k \in {1, 258}}

\* structs with a pointer field that may be nil, and with an ignored field
OptionalInputs ==
  {In(<<"Opt">>, <<a, 0, b>>) : a \in {1, 255}, b \in {0, 2}}
  \cup {InH(<<"Opt">>, <<1, 1, 2>>, <<p>>) : p \in {0, 513}}
  \cup {InH(<<"*", "Opt">>, 1, << <<3, q, 4>>, 258 >>) : q \in {0, 2}}
  \cup {In(<<"ignoreTag">>, <<a, b, 1>>) : a \in {1, 258}, b \in {0, 1}}

\* values holding ByteCoders: pointers to them (nil or not), and values of
\* the struct types themselves in places that can and cannot be addressed
CoderInputs ==
  {InH(<<"*", bc>>, 1, << <<Str(s)>> >>) : bc \in ByteCoders, s \in {"", "hi"}}
  \cup {In(<<"*", bc>>, 0) : bc \in ByteCoders}
  \cup {In(<<"bytecoder">>, <<Str("hi")>>), In(<<"[]", "bytecoder">>, << <<Str("hi")>> >>),
        In(<<"[]", "failcoder">>, << <<Str("h")>> >>)}
  \cup {InH(<<"*", "emptyByteCoder">>, 1, << <<p>>, <<Str("hi")>> >>) : p \in {0, 2}}
  \cup {In(<<"emptyByteCoder">>, <<0>>)}
  \cup {InH(<<"TwoFail">>, <<f, u, 0>>, << <<Str("h")>> >>) :
          f \in {NaN64, F64of15p1}, u \in {0, 1}}

\* a string of n bytes
LongStr(n) == [i \in 1..n |-> 97]

\* structs whose fields carry length and lengthref options: a data field
\* longer than its uint8 holder can count, a lengthref that names no field,
\* two fields with the same length option
LengthInputs ==
  {In(<<"LenData">>, <<7, LongStr(256)>>), In(<<"LenNone">>, <<0, Str("hi")>>)}
  \cup {In(<<"LenStr">>, <<n, Str("hi")>>) : n \in {0, 5}}

MarshalInputs ==
  ScalarInputs \cup CompositeInputs \cup FloatInputs \cup CycleInputs \cup SharedInputs
    \cup OptionalInputs \cup CoderInputs \cup LengthInputs

\* ---------------------------------------------------------------- Marshal
\* cachedTypeFields: an entry not yet stored is represented by the value the
\* first lookup stores, typeFields(t)
InitFieldCache == [n \in StructNames |-> typeFields(n)]

\* op.src when the call is not the second half of a round trip
NoSrc == [t |-> <<"nil">>, v |-> 0, w |-> <<>>]

\* the goroutines of the concurrent specifications
Threads == {1, 2}

\* the types whose codecs the goroutines resolve: Pair has fields that hold
\* a length, Node refers to itself, RecA and RecB refer to each other
RegTypes ==
  {<<"uint8">>, <<"uint16">>, <<"Pair">>, <<"Node">>, <<"*", "Node">>,
   <<"RecA">>, <<"*", "RecA">>, <<"RecB">>, <<"*", "RecB">>}

\* the values of codecCache: nothing stored for the type, the
\* recursiveWrapCoder goroutine g stored, the codec goroutine g built
NoEntry == [kind |-> "none", by |-> 0]
Placeholder(g) == [kind |-> "ph", by |-> g]
RealCodec(g) == [kind |-> "real", by |-> g]

\* a goroutine that is not inside any call
IdleThread == [st |-> "idle", calls |-> <<>>, res |-> <<>>]
\* no call in progress
IdleCall ==
  [st |-> "idle", name |-> "", t |-> "", v |-> <<>>, data |-> <<>>, fc0 |-> <<>>,
   out |-> <<>>, val |-> <<>>, err |-> NoErr]

Init ==
  /\ pc = "idle"
  /\ op = [name |-> "none", t |-> <<"nil">>, v |-> 0, w |-> <<>>, data |-> <<>>,
           src |-> NoSrc]
  /\ heap = <<>>
  /\ stack = <<>>
  /\ ptrLevel = 0
  /\ ptrSeen = {}
  /\ out = <<>>
  /\ err = NoErr
  /\ fieldCache = InitFieldCache
  /\ codecCache = [t \in RegTypes |-> NoEntry]
  /\ tmp = [t \in RegTypes |-> [g \in Threads |-> <<>>]]
  /\ wg = [t \in RegTypes |-> [g \in Threads |-> 0]]
  /\ thr = [g \in Threads |-> IdleThread]
  /\ calls = [g \in Threads |-> IdleCall]

\* a pointerTrack that is the one the last call left behind
keptPointerTrack == [ptrLevel |-> ptrLevel, ptrSeen |-> ptrSeen]
\* newPointerTrack(): the pointerTrack newCodecState gives the CodecState of
\* a call, whether the CodecState is new or comes from encodeStatePool
newPointerTrack == [ptrLevel |-> 0, ptrSeen |-> {}]

\* Marshal(v): newCodecState() and the call of e.marshal(v), up to the entry
\* of the codec of v
MarshalCall(inp) ==
  /\ pc = "idle"
  /\ pc' = "enc"
  /\ op' = [name |-> "Marshal", t |-> inp.t, v |-> inp.v, w |-> <<>>, data |-> <<>>,
            src |-> NoSrc]
  /\ heap' = inp.w
  /\ stack' = << Frame(<<>>, 0, NoTag) >>
  /\ ptrLevel' = newPointerTrack.ptrLevel
  /\ ptrSeen' = newPointerTrack.ptrSeen
  /\ out' = <<>>
  /\ err' = NoErr
  /\ UNCHANGED <<fieldCache, regVars, calls>>

\* the panic of c.error(e) unwinding to the recover of CodecState.code: the
\* deferred deletes of the tracked frames run, ptrLevel is not restored, and
\* Marshal returns nil, err
EncAbort(e) ==
  /\ pc' = "idle"
  /\ stack' = <<>>
  /\ ptrSeen' = ptrSeen \ trackedKeys(stack)
  /\ out' = <<>>
  /\ err' = e
  /\ UNCHANGED <<op, heap, fieldCache>>

\* the error of an unsupported type in the place of the cycle error
cycleAsTypeError(t) == UnsupportedTypeError(t)
\* the error ptrCoder reports for a pointer of type t found in ptrSeen
cycleError(t) == UnsupportedValueError("encountered a cycle via", t)

\* whether ptrCoder.encode finds the pointer in ptrSeen at level lvl
seenCycle(lvl, key, seen) == lvl > startDetectingCyclesAfter /\ key \in seen

\* a ptrCoder that tracks every pointer it enters, whatever the level
seenAlwaysTracked(lvl, key, seen) == seen \cup {key}
\* ptrSeen after ptrCoder entered the pointer key at level lvl: the pointer
\* is tracked once ptrLevel is beyond startDetectingCyclesAfter
seenAfterEnter(lvl, key, seen) ==
  IF lvl > startDetectingCyclesAfter THEN seen \cup {key} ELSE seen

\* entry of ptrCoder.encode for the non-nil pointer nd
EncEnter(nd) ==
  LET key == <<nd.t, nd.a>>
      lvl == ptrLevel + 1
  IN IF seenCycle(lvl, key, ptrSeen)
     THEN /\ ptrLevel' = lvl
          /\ EncAbort(cycleError(nd.t))
     ELSE /\ ptrLevel' = lvl
          /\ ptrSeen' = seenAfterEnter(lvl, key, ptrSeen)
          /\ stack' = Append(stack, Frame(nd.t, nd.a, nd.to))
          /\ UNCHANGED <<pc, op, heap, out, err, fieldCache>>

\* ptrSeen after a return of ptrCoder.encode that deleted nothing
seenKept(lvl, key, seen) == seen
\* ptrSeen after the deferred delete of a ptrCoder call, entered for the
\* pointer key, that returns at level lvl
seenAfterReturn(lvl, key, seen) ==
  IF lvl > startDetectingCyclesAfter THEN seen \ {key} ELSE seen

\* return of a ptrCoder.encode call that appended bytes b
EncReturn(b) ==
  LET n == Len(stack)
      top == stack[n]
  IN /\ ptrLevel' = ptrLevel - 1
     /\ ptrSeen' = seenAfterReturn(ptrLevel, frameKey(top), ptrSeen)
     /\ stack' = [SubSeq(stack, 1, n - 1) EXCEPT ![n - 1].res = Append(@, b)]
     /\ UNCHANGED <<pc, op, heap, out, err, fieldCache>>

\* return of the root codec: Marshal copies the buffer and returns it
EncDone(b) ==
  /\ pc' = "idle"
  /\ stack' = <<>>
  /\ out' = b
  /\ err' = NoErr
  /\ UNCHANGED <<op, heap, ptrLevel, ptrSeen, fieldCache>>

\* Marshal runs on: the innermost active call proceeds until it returns,
\* fails, or enters the next ptrCoder.encode
EncStep ==
  /\ pc = "enc"
  /\ LET top == stack[Len(stack)] IN
     \E r \in {Encode(frameType(top), IF top.p = <<>> THEN op.v ELSE heap[top.a],
                      frameOpts(top), <<>>, 0,
                      [res |-> top.res, fc |-> fieldCache, heap |-> heap,
                       can |-> top.p # <<>>])} :
       CASE r.st = "err" -> EncAbort(r.e) /\ UNCHANGED ptrLevel
         [] r.st = "need" -> EncEnter(r.nd)
         [] r.st = "ok" /\ Len(stack) > 1 -> EncReturn(r.buf)
         [] OTHER -> EncDone(r.buf)
  /\ UNCHANGED <<regVars, calls>>

\* --------------------------------------------------------------- Unmarshal
RECURSIVE Mentions(_, _)
\* whether values of type t can hold a value of the struct type name
Mentions(t, name) ==
  CASE t = <<>> -> FALSE
    [] Head(t) = name -> TRUE
    [] Head(t) \in StructNames ->
         \E i \in 1..Len(StructFields(Head(t))) :
            Head(t) # "Node" /\ Mentions(StructFields(Head(t))[i].typ, name)
    [] OTHER -> Mentions(Tail(t), name)

\* targets and data of the Unmarshal calls: [t, v] is the interface value
\* passed as v, w the memory it points into
Un(t, v, w, data) == [t |-> t, v |-> v, w |-> w, data |-> data]

InvalidTargets ==
  {Un(<<"nil">>, 0, <<>>, d) : d \in {<<>>, <<0, 1>>}}
  \cup {Un(<<"uint16">>, 7, <<>>, <<0, 1>>), Un(<<"AbcT">>, Zero(<<"AbcT">>), <<>>, <<0, 1>>),
        Un(<<"[]", "uint16">>, <<3>>, <<>>, <<0, 1>>)}
  \cup {Un(<<"*", "uint16">>, 0, <<7>>, <<0, 1>>), Un(<<"*", "AbcT">>, 0, <<>>, <<0, 1>>),
        Un(<<"*", "Pair">>, 0, << <<3, 4>> >>, <<2, 1, 2>>)}

AbcBytes == <<0, 1, 97, 98, 99, 100, 1, 2, 3, 4, 0>>

ValidTargets ==
  {Un(<<"*", sn>>, 1, <<Zero(<<sn>>)>>, AbcBytes) : sn \in {"Abc", "AbcT"}}
  \cup {Un(<<"*", sn>>, 1, <<Zero(<<sn>>)>>, d) :
          sn \in {"LenData", "LenDataT", "LenDataTail"},
          d \in {<<2, 104, 105>>, <<2, 104, 105, 7>>, <<1, 104, 105, 7>>, <<0>>, <<>>}}
  \cup {Un(<<"*", "LenDataTail">>, 1, << <<n, <<>>, 0>> >>, <<2, 104, 105, 7>>) : n \in {1, 3}}
  \cup {Un(<<"*", "[]", "uint16">>, 1, <<v>>, d) :
          v \in {<<>>, <<9, 9, 9>>}, d \in {<<0, 1, 0, 2>>, <<0, 1, 0>>, <<>>}}
  \cup {Un(<<"*", sn>>, 1, <<Zero(<<sn>>)>>, <<0, 1, 0, 2>>) : sn \in {"LTag", "LTagT"}}
  \cup {Un(<<"*", tn>>, 1, <<5>>, d) :
          tn \in {"uint16", "int16", "int32", "uint8"},
          d \in {<<>>, <<1>>, <<1, 2>>, <<255, 254, 3, 4, 5>>}}
  \cup {Un(<<"*", "Scalars">>, 1, <<Zero(<<"Scalars">>)>>, d) :
          d \in {<<2, 1, 1, 254, 0, 0, 1, 0>>, <<2, 1, 1>>, <<2>>}}
  \cup {Un(<<"*", "Pair">>, 1, << <<n, 0>> >>, <<2, 1, 2>>) : n \in {0, 3}}
  \cup {Un(<<"*", "[2]", "uint8">>, 1, << <<8, 9>> >>, d) : d \in {<<>>, <<1, 2>>, <<1, 2, 3>>}}
  \cup {Un(<<"*", "string">>, 1, << <<>> >>, d) : d \in {<<>>, <<104, 105>>}}
  \cup {Un(<<"*", "bool">>, 1, <<FALSE>>, d) : d \in {<<>>, <<0>>, <<2>>}}
  \cup {Un(<<"*", "float32">>, 1, <<Zeros(4)>>, d) : d \in {F32of15p2, <<65>>}}
  \cup {Un(<<"*", "*", "uint16">>, 1, <<0>>, d) : d \in {<<1, 2>>, <<>>}}
  \cup {Un(<<"*", "*", "uint16">>, 1, <<2, 5>>, <<1, 2>>)}
  \cup {Un(<<"*", "interface">>, 1, <<Iface(<<"uint16">>, 5)>>, <<1, 2>>),
        Un(<<"*", "interface">>, 1, <<Iface(<<"*", "uint16">>, 2), 5>>, <<1, 2>>),
        Un(<<"*", "interface">>, 1, <<NilIface>>, <<1, 2>>)}
  \cup {Un(<<"*", "[]", "string">>, 1, << <<>> >>, d) : d \in {<<>>, <<104>>}}
  \cup {Un(<<"*", "Ign">>, 1, << <<1, 2, 3, 4, 5>> >>, <<8, 9>>),
        Un(<<"*", "chan">>, 1, <<0>>, <<1>>)}
  \cup {Un(<<"*", "ignoreTag">>, 1, << <<7, 5, 7>> >>, d) :
          d \in {<<0, 1, 0, 0, 0, 0, 0, 0, 0, 0>>, <<0, 1>>}}
  \cup {Un(<<"*", "Opt">>, 1, << <<0, p, 0>>, 7 >>, d) :
          p \in {0, 2}, d \in {<<1, 2, 3, 4>>, <<1>>}}
  \cup {Un(<<"*", bc>>, 1, << <<Str("h")>> >>, d) :
          bc \in ByteCoders, d \in {<<>>, <<117, 102>>}}
  \cup {Un(<<"*", "emptyByteCoder">>, 1, << <<p>>, <<Str("h")>> >>, d) :
          p \in {0, 2}, d \in {<<>>, <<117, 102>>}}
  \cup {Un(<<"*", "[]", bc>>, 1, << <<>> >>, d) :
          bc \in ByteCoders, d \in {<<>>, <<117>>}}
  \cup {Un(<<"*", "LenStr">>, 1, << <<5, <<>>>> >>, <<2, 104, 105>>),
        Un(<<"*", "LenNone">>, 1, <<Zero(<<"LenNone">>)>>, <<2, 104, 105>>),
        Un(<<"*", "SlTail">>, 1, <<Zero(<<"SlTail">>)>>, <<1, 2>>)}
  \cup {Un(<<"*", "Node">>, 1, <<Node(0, 0, 0)>>, d) : d \in {<<>>, <<1, 2>>}}
  \cup {Un(<<"*", "[]", "interface">>, 1, << <<>> >>, d) : d \in {<<>>, <<1>>}}
  \cup {Un(<<"*", "[2]", "string">>, 1, << <<<<>>, <<>>>> >>, <<104>>),
        Un(<<"*", "[2]", "uint8">>, 1, << <<8, 9>> >>, <<1>>)}

UnmarshalInputs == InvalidTargets \cup ValidTargets

\* the test of Unmarshal without its rv.IsNil() half
notPointer(t, v) == Kind(t) # "Ptr"
\* the test of Unmarshal: rv.Kind() != reflect.Ptr || rv.IsNil()
invalidTarget(t, v) == Kind(t) # "Ptr" \/ v = 0

\* Unmarshal(data, v) up to the return of the InvalidUnmarshalError or to the
\* entry of the codec of v, on a CodecState holding data
UnmarshalStart(inp, src) ==
  /\ pc = "idle"
  /\ op' = [name |-> "Unmarshal", t |-> inp.t, v |-> inp.v, w |-> inp.w,
            data |-> inp.data, src |-> src]
  /\ heap' = inp.w
  /\ out' = <<>>
  /\ IF invalidTarget(inp.t, inp.v)
     THEN /\ pc' = "idle"
          /\ err' = InvalidUnmarshalError(inp.t)
          /\ stack' = <<>>
          /\ UNCHANGED <<ptrLevel, ptrSeen, fieldCache>>
     ELSE /\ pc' = "dec"
          /\ err' = NoErr
          /\ stack' = << DFrame(<<>>, 0, NoTag, inp.v, inp.data, fieldCache, FALSE) >>
          /\ ptrLevel' = newPointerTrack.ptrLevel
          /\ ptrSeen' = newPointerTrack.ptrSeen
          /\ UNCHANGED fieldCache
  /\ UNCHANGED <<regVars, calls>>

UnmarshalCall(inp) == UnmarshalStart(inp, NoSrc)

\* the second half of a round trip: the bytes the last Marshal returned are
\* unmarshalled into a pointer to a new zero value of the marshalled type
RoundTrip ==
  /\ op.name = "Marshal"
  /\ err = NoErr
  /\ op.t # <<"nil">>
  /\ ~Mentions(op.t, "Node")
  /\ UnmarshalStart(Un(<<"*">> \o op.t, 1, <<Zero(op.t)>>, out),
                    [t |-> op.t, v |-> op.v, w |-> heap])

\* memory h after the value at address a became val
heapWrite(h, a, val) == IF a = 0 THEN h ELSE [h EXCEPT ![a] = val]

RECURSIVE heapStores(_, _, _)
\* memory h after the stores hw[i], hw[i + 1], ... of UnmarshalBytes calls
heapStores(h, hw, i) ==
  IF i > Len(hw) THEN h ELSE heapStores(heapWrite(h, hw[i][1], hw[i][2]), hw, i + 1)

\* memory after the walk r of the innermost call top: the stores r made that
\* memory does not have yet, and the value of the call's pointer
heapAfter(h, top, r) == heapWrite(heapStores(h, r.s.hw, top.nw + 1), top.a, r.val)

\* a panic unwinding out of the decode: what was stored stays stored, the
\* deferred deletes run, and Unmarshal returns e (or panics on, for a panic
\* that is not a bytecodecError)
DecAbort(h, fc, e) ==
  /\ pc' = "idle"
  /\ heap' = h
  /\ fieldCache' = fc
  /\ stack' = <<>>
  /\ ptrSeen' = ptrSeen \ trackedKeys(stack)
  /\ err' = e
  /\ UNCHANGED <<op, out>>

\* entry of ptrCoder.decode for the pointer nd met by the walk r of the
\* innermost call: a nil pointer is first set to a new zero value.  The
\* model follows the nesting of these calls up to MaxDecodeDepth
DecEnter(r) ==
  /\ Len(stack) <= MaxDecodeDepth
  /\ LET n == Len(stack)
         top == stack[n]
         nd == r.nd
         alloc == nd.a = 0
         addr == IF alloc THEN Len(heap) + 1 ELSE nd.a
         heap0 == heapStores(heap, r.s.hw, top.nw + 1)
         heap1 == IF alloc THEN Append(heap0, Zero(Elem(nd.t))) ELSE heap0
         key == <<nd.t, addr>>
         lvl == ptrLevel + 1
         res1 == Append(top.res, [a |-> addr, done |-> FALSE, buf |-> <<>>, fc |-> <<>>])
     IN \E r1 \in {Decode(frameType(top), top.v, frameOpts(top), top.can,
                           DSt(top.buf, top.fc, 0), [res |-> res1])} :
        \E heap2 \in {heapWrite(heap1, top.a, r1.val)} :
          IF seenCycle(lvl, key, ptrSeen)
          THEN /\ ptrLevel' = lvl
               /\ DecAbort(heap2, r.s.fc, cycleError(nd.t))
          ELSE /\ ptrLevel' = lvl
               /\ ptrSeen' = seenAfterEnter(lvl, key, ptrSeen)
               /\ heap' = heap2
               /\ fieldCache' = r.s.fc
               /\ stack' = Append([stack EXCEPT ![n].res = res1, ![n].nw = Len(r.s.hw)],
                                  DFrame(nd.t, addr, nd.to, heap2[addr],
                                         r.s.buf, r.s.fc, TRUE))
               /\ UNCHANGED <<pc, op, out, err>>

\* return of a ptrCoder.decode call whose walk was r
DecReturn(r) ==
  LET n == Len(stack)
      top == stack[n]
      done == [a |-> top.a, done |-> TRUE, buf |-> r.s.buf, fc |-> r.s.fc]
  IN /\ ptrLevel' = ptrLevel - 1
     /\ ptrSeen' = seenAfterReturn(ptrLevel, frameKey(top), ptrSeen)
     /\ heap' = heapAfter(heap, top, r)
     /\ fieldCache' = r.s.fc
     /\ stack' = [SubSeq(stack, 1, n - 1) EXCEPT
                    ![n - 1].res[Len(stack[n - 1].res)] = done]
     /\ UNCHANGED <<pc, op, out, err>>

\* return of the root codec: Unmarshal returns nil
DecDone(r) ==
  /\ pc' = "idle"
  /\ stack' = <<>>
  /\ err' = NoErr
  /\ heap' = heapAfter(heap, stack[Len(stack)], r)
  /\ fieldCache' = r.s.fc
  /\ UNCHANGED <<op, out, ptrLevel, ptrSeen>>

\* the innermost call is in a loop that never ends
DecHang(r) ==
  /\ pc' = "hang"
  /\ heap' = heapAfter(heap, stack[Len(stack)], r)
  /\ fieldCache' = r.s.fc
  /\ UNCHANGED <<op, stack, out, err, ptrLevel, ptrSeen>>

\* Unmarshal runs on: the innermost active call proceeds until it returns,
\* fails, hangs, or enters the next ptrCoder.decode
DecStep ==
  /\ pc = "dec"
  /\ LET top == stack[Len(stack)] IN
     \E r \in {Decode(frameType(top), top.v, frameOpts(top), top.can,
                      DSt(top.buf, top.fc, 0), [res |-> top.res])} :
       CASE r.st = "err" ->
              DecAbort(heapAfter(heap, top, r), r.s.fc, r.e) /\ UNCHANGED ptrLevel
         [] r.st = "hang" -> DecHang(r)
         [] r.st = "need" -> DecEnter(r)
         [] r.st = "ok" /\ Len(stack) > 1 -> DecReturn(r)
         [] OTHER -> DecDone(r)
  /\ UNCHANGED <<regVars, calls>>

Next ==
  \/ \E inp \in MarshalInputs : MarshalCall(inp)
  \/ EncStep
  \/ \E inp \in UnmarshalInputs : UnmarshalCall(inp)
  \/ RoundTrip
  \/ DecStep

Spec == Init /\ [][Next]_vars

\* Marshal alone, called on the pointer graphs (cyclic, shared and deep)
PointerNext ==
  \/ \E inp \in CycleInputs \cup SharedInputs : MarshalCall(inp)
  \/ EncStep

\* a step of a running Marshal: EncStep is enabled whenever pc = "enc", and
\* each of its steps changes pc or ptrLevel
Running ==
  /\ pc = "enc"
  /\ pc' \in {"enc", "idle"}
  /\ ptrLevel' \in {ptrLevel - 1, ptrLevel, ptrLevel + 1}

\* weak fairness of the steps of a running call: a Marshal that can proceed
\* does (the Go runtime keeps running the goroutine that called it)
PointerSpec == Init /\ [][PointerNext]_vars /\ WF_<<pc, ptrLevel>>(Running)

\* ------------------------------------------------------------- properties
\* the call named name has returned
Done(name) == pc = "idle" /\ op.name = name
\* the call in progress or last completed is Marshal of an input of the set S
IsMarshalOf(S) ==
  op.name = "Marshal" /\ \E inp \in S : inp.t = op.t /\ inp.v = op.v /\ inp.w = heap

C1Types ==
  {<<tn>> : tn \in IntTypes \cup {"bool"}}
  \cup {<<"[2]", "uint8">>, <<"[5]", "uint8">>, <<"Scalars">>, <<"AbcT">>}

\* C1: for every value v of a supported type with no lengthref and no
\* variable-length field, Marshal(v) succeeds, and Unmarshal of its bytes into
\* a zero value of the same type succeeds and leaves it equal to v.
C1_RoundTrip ==
  /\ (Done("Marshal") /\ op.t \in C1Types) => err = NoErr
  /\ (Done("Unmarshal") /\ op.src.t \in C1Types) => (err = NoErr /\ heap[1] = op.src.v)

WideInts == {"int16", "uint16", "int32", "uint32", "int64", "uint64", "int", "uint", "uintptr"}
WidthOf(tn) ==
  CASE tn \in {"int16", "uint16"} -> 2
    [] tn \in {"int32", "uint32"} -> 4
    [] OTHER -> 8
RECURSIVE Shr8(_, _)
\* v >> (8 * j), arithmetic
Shr8(v, j) == IF j = 0 THEN v ELSE Shr8(v \div 256, j - 1)

\* C2: Marshal of a 16-, 32- or 64-bit integer (int, uint and uintptr count as
\* 64-bit) writes exactly 2, 4 or 8 bytes, most significant byte first, a
\* negative value as its two's complement; decoding those bytes gives the
\* value back.
C2_FixedWidth ==
  /\ (Done("Marshal") /\ op.t[1] \in WideInts) =>
       /\ err = NoErr
       /\ Len(out) = WidthOf(op.t[1])
       /\ \A i \in 1..Len(out) : out[i] = Shr8(op.v, Len(out) - i) % 256
  /\ (Done("Unmarshal") /\ op.src.t[1] \in WideInts) =>
       (err = NoErr /\ heap[1] = op.src.v)

C2_Witness ==
  /\ Done("Unmarshal")
  /\ op.src.t = <<"int64">>
  /\ op.src.v = -65537
  /\ op.data = <<255, 255, 255, 255, 255, 254, 255, 255>>
  /\ heap[1] = -65537

AbcValue == <<1, Str("abcd"), <<1, 2, 3, 4, 0>>>>

\* C3: Marshal of a struct returns the concatenation, in declaration order, of
\* the encodings of its non-ignored fields; {A uint16; B string length:4;
\* C [5]byte} with A=1, B="abcd", C=[1,2,3,4,0] encodes to
\* 00 01 61 62 63 64 01 02 03 04 00 and decodes back to the same struct.
C3_StructConcat ==
  /\ (Done("Marshal") /\ op.t \in {<<"Abc">>, <<"AbcT">>} /\ op.v = AbcValue) =>
       (err = NoErr /\ out = AbcBytes)
  /\ (Done("Marshal") /\ op.t = <<"Ign">>) =>
       (err = NoErr /\ out = <<op.v[1], op.v[5]>>)
  /\ (Done("Unmarshal") /\ op.t \in {<<"*", "Abc">>, <<"*", "AbcT">>} /\ op.v = 1
        /\ op.data = AbcBytes) =>
       (err = NoErr /\ heap[1] = AbcValue)

\* C4: for {Len uint8 lengthref:Data; Data string}, Marshal writes at Len's
\* position the number of bytes of Data's encoding (not Len's value in memory)
\* and Data's encoding once at Data's position: Data="hi" gives 02 68 69.
C4_LengthrefEncode ==
  (Done("Marshal") /\ op.t \in {<<"LenData">>, <<"LenDataT">>}) =>
    (err = NoErr /\ out = <<Len(op.v[2])>> \o op.v[2])

\* C5: for a holder N with lengthref:Data declared before Data, Unmarshal of a
\* stream carrying a length and that many data bytes reproduces N and Data:
\* the bytes read for Data are as many as the N decoded in the same call says.
C5_LengthrefDecode ==
  (/\ Done("Unmarshal")
   /\ op.t \in {<<"*", "LenData">>, <<"*", "LenDataT">>, <<"*", "LenDataTail">>}
   /\ op.v = 1
   /\ Len(op.data) >= 1
   /\ Len(op.data) >= 1 + op.data[1] + (IF op.t[2] = "LenDataTail" THEN 1 ELSE 0))
  => /\ err = NoErr
     /\ heap[1][1] = op.data[1]
     /\ heap[1][2] = SubSeq(op.data, 2, 1 + op.data[1])

\* C6: decoding a slice field bounded to a region of k*w bytes yields exactly
\* k elements in stream order: []uint16 with length:4 decoded from
\* 00 01 00 02 yields [1, 2].
C6_SliceDecode ==
  (Done("Unmarshal") /\ op.t \in {<<"*", "LTag">>, <<"*", "LTagT">>} /\ op.v = 1
     /\ op.data = <<0, 1, 0, 2>>)
  => (err = NoErr /\ heap[1] = << <<1, 2>> >>)

\* C7: Marshal of a value whose pointer graph has a cycle on the traversal
\* path (a self-pointer, a longer cycle, a cycle through a slice of
\* interfaces) terminates and returns an UnsupportedValueError naming the
\* pointer type, and no bytes, for every cycle length.
C7_CycleDetected ==
  (pc = "enc" /\ IsMarshalOf(CycleInputs))
    ~> (/\ Done("Marshal")
        /\ IsMarshalOf(CycleInputs)
        /\ err.kind = "UnsupportedValueError"
        /\ err.info = <<"encountered a cycle via">> \o op.t
        /\ out = <<>>)

C7_Witness ==
  /\ Done("Marshal")
  /\ IsMarshalOf(CycleInputs)
  /\ Len(heap) = 1 + MaxCycleLen
  /\ err.kind = "UnsupportedValueError"
  /\ ptrLevel > startDetectingCyclesAfter

RECURSIVE HoldsNonFinite(_, _, _, _)
\* whether the value v of type t holds a NaN or an infinity; with visited, only
\* in the positions the encoder visits (the fields of typeFields)
HoldsNonFinite(t, v, h, visited) ==
  CASE Kind(t) = "Float32" -> v \in NonFinite32s
    [] Kind(t) = "Float64" -> v \in NonFinite64s
    [] Kind(t) = "Ptr" -> v # 0 /\ HoldsNonFinite(Elem(t), h[v], h, visited)
    [] Kind(t) \in {"Array", "Slice"} ->
         \E i \in 1..Len(v) : HoldsNonFinite(Elem(t), v[i], h, visited)
    [] Kind(t) = "Interface" -> v.dt # <<>> /\ HoldsNonFinite(v.dt, v.dv, h, visited)
    [] Kind(t) = "Struct" ->
         LET sfs == StructFields(Head(t)) IN
         \E i \in 1..Len(sfs) :
            /\ visited => (sfs[i].pkgPath = "" /\ ~sfs[i].anonymous /\ sfs[i].val = EmptyTag)
            /\ HoldsNonFinite(sfs[i].typ, v[i], h, visited)
    [] OTHER -> FALSE

RECURSIVE PlainType(_)
\* a type built from supported kinds whose struct fields carry no tags
PlainType(t) ==
  CASE Kind(t) = "Chan" -> FALSE
    [] Kind(t) \in {"Ptr", "Array", "Slice"} -> PlainType(Elem(t))
    [] Kind(t) = "Struct" ->
         \A i \in 1..Len(StructFields(Head(t))) :
            /\ StructFields(Head(t))[i].val = EmptyTag
            /\ PlainType(StructFields(Head(t))[i].typ)
    [] OTHER -> TRUE

C10_InvalidTarget ==
  [][(/\ pc = "idle"
      /\ op'.name = "Unmarshal"
      /\ (op'.t = <<"nil">> \/ Head(op'.t) # "*" \/ op'.v = 0))
     => (/\ pc' = "idle"
         /\ err'.kind = "InvalidUnmarshalError"
         /\ stack' = <<>>
         /\ heap' = op'.w
         /\ fieldCache' = fieldCache)]_vars

C10_Witness ==
  /\ Done("Unmarshal")
  /\ op.t = <<"*", "Pair">>
  /\ op.v = 0
  /\ op.data = <<2, 1, 2>>
  /\ err.kind = "InvalidUnmarshalError"
  /\ heap = << <<3, 4>> >>

\* C11: a decode step that needs N bytes when fewer than N remain makes
\* Unmarshal return DataLengthErr and store nothing; here for a 2- or 4-byte
\* integer target and data shorter than its width, 0 and 1..N-1 bytes alike.
C11_ShortRead ==
  (/\ Done("Unmarshal")
   /\ Len(op.t) = 2
   /\ Head(op.t) = "*"
   /\ op.t[2] \in {"uint16", "int16", "int32"}
   /\ op.v # 0
   /\ Len(op.data) < WidthOf(op.t[2]))
  => (err = bytecodecError(DataLengthErr) /\ heap = op.w)

\* the TwoFail values whose first failing field is F (a non-finite float) and
\* those whose first failing field is U (a ByteCoder that returns an error)
FailsAtF == op.t = <<"TwoFail">> /\ NonFinite64(op.v[1])
FailsAtU == op.t = <<"TwoFail">> /\ ~NonFinite64(op.v[1]) /\ op.v[2] # 0

\* C12: when a nested codec fails, Marshal returns no bytes and the error of
\* the first codec that failed: the codecs of the later fields and elements
\* (a user's MarshalBytes among them) do not run, so their errors never show.
C12_FirstFailureOnly ==
  Done("Marshal") =>
    /\ err # NoErr => out = <<>>
    /\ FailsAtF => err = UnsupportedValueError("float", <<>>)
    /\ FailsAtU => err = MarshalerError(<<"*", "failcoder">>, UserErr)
    /\ op.t = <<"UF">> => err = UnsupportedTypeError(<<"chan">>)
    /\ (op.t = <<"[]", "float64">> /\ \E i \in 1..Len(op.v) : NonFinite64(op.v[i]))
         => err = UnsupportedValueError("float", <<>>)
    /\ op.t = <<"[]", "failcoder">> => err = MarshalerError(<<"failcoder">>, UserErr)

\* Marshal has returned for a TwoFail whose F is not finite and whose U and G
\* would fail too
C12_Witness ==
  /\ Done("Marshal")
  /\ FailsAtF
  /\ op.v[2] # 0
  /\ out = <<>>
  /\ err = UnsupportedValueError("float", <<>>)

\* C13: when Unmarshal returns an error the memory the target points into is
\* what it was before the call: nothing decoded before the failure is stored.
C13_NoPartialResult ==
  (/\ Done("Unmarshal")
   /\ err # NoErr
   /\ err.kind # "RuntimePanic")
  => heap = op.w

\* C14: the unexported, the embedded and the `-` fields of a struct add no
\* bytes to the output of Marshal and take none on Unmarshal, which leaves
\* them as they were; the other fields are coded as if those were absent.
\* Ign has one field of each ignored kind between A and D (its `-` under the
\* key json); ignoreTag is the struct of TestIgnoreTag, its `-` under the
\* key bytecodec as the readme writes it.
C14_IgnoredFields ==
  /\ (Done("Marshal") /\ op.t = <<"Ign">>)
       => (err = NoErr /\ out = <<op.v[1], op.v[5]>>)
  /\ (Done("Marshal") /\ op.t = <<"HidF">>)
       => (err = NoErr /\ out = <<op.v[1]>>)
  /\ (Done("Marshal") /\ op.t = <<"ignoreTag">>)
       => (err = NoErr
           /\ out = intBytes("uint16Coder", op.v[1]) \o intBytes("uint64Coder", op.v[3]))
  /\ (Done("Unmarshal") /\ op.t = <<"*", "Ign">> /\ op.v # 0 /\ Len(op.data) = 2)
       => (err = NoErr
           /\ heap[1] = <<op.data[1], op.w[1][2], op.w[1][3], op.w[1][4], op.data[2]>>)
  /\ (Done("Unmarshal") /\ op.t = <<"*", "ignoreTag">> /\ op.v # 0 /\ Len(op.data) = 10)
       => (err = NoErr
           /\ heap[1] = <<UBE(SubSeq(op.data, 1, 2)), op.w[1][2],
                          UBE(SubSeq(op.data, 3, 10))>>)

\* the Opt value of a Marshal call on an Opt or on a pointer to one
OptValue == IF op.t = <<"Opt">> THEN op.v ELSE heap[op.v]

C18_NilByteCoder ==
  /\ (Done("Marshal") /\ op.t = <<"*", "emptyByteCoder">> /\ heap[op.v][1] = 0)
       => (err = NoErr /\ out = <<>>)
  /\ (Done("Marshal") /\ op.t = <<"emptyByteCoder">> /\ op.v[1] = 0)
       => (err = NoErr /\ out = <<>>)
  /\ (Done("Unmarshal") /\ op.t = <<"*", "emptyByteCoder">> /\ op.v # 0
        /\ op.w[op.v][1] = 0)
       => /\ err = NoErr
          /\ op.data = <<>> => heap[op.v][1] = 0
          /\ op.data # <<>> =>
               /\ heap[op.v][1] # 0
               /\ heap[heap[op.v][1]] = UnmarshalBytes("bytecoder", op.data).bc

\* ------------------------------------------------------ the codec registry
\* Goroutines resolve codecs side by side.  A step is one statement of
\* typeCodec, and the steps of the goroutines interleave in any order.

\* the types of the values the goroutines marshal
TopTypes == {<<"uint8">>, <<"Pair">>, <<"*", "Node">>, <<"RecA">>}
\* those of them that refer to themselves, Node directly, RecA and RecB
\* through each other
RecursiveTops == {<<"Node">>, <<"RecA">>, <<"RecB">>}

\* the deepest nesting of typeCodec calls the model follows
MaxDepth == 12

\* the codec value a typeCodec(t) call returns for the entry e it found or
\* stored
CodecOf(t, e) == [t |-> t, kind |-> e.kind, by |-> e.by]

\* the types newTypeCodec(t, true) calls typeCodec for, in order: the types
\* of the fields typeFields keeps for a struct, the element type for a
\* pointer, a slice and an array
elemTypes(t) ==
  CASE Kind(t) = "Struct" ->
         [i \in 1..Len(typeFields(Head(t))) |-> typeFields(Head(t))[i].codec]
    [] Kind(t) \in {"Ptr", "Slice", "Array"} -> <<Elem(t)>>
    [] OTHER -> <<>>

\* a typeCodec(t) call: at is the statement it is at, got the codecs its
\* newTypeCodec has been returned so far
Call(t) == [t |-> t, at |-> "Load", got |-> <<>>]

\* the innermost typeCodec call of goroutine g
TopCall(g) == thr[g].calls[Len(thr[g].calls)]

\* goroutine g with its innermost call moved to statement a
atStmt(g, a) == [thr[g] EXCEPT !.calls[Len(thr[g].calls)].at = a]

\* an entry test that never finds anything
neverLoaded(e) == FALSE
\* the ok of codecCache.Load and the loaded of codecCache.LoadOrStore for
\* the entry e of the type
loaded(e) == e.kind # "none"

\* an entry that says nothing is stored
noPlaceholder(g) == NoEntry
\* the entry LoadOrStore stores for the call of goroutine g:
\* recursiveWrapCoder{&tmp, &wg}
newPlaceholder(g) == Placeholder(g)

\* goroutine g after its innermost typeCodec call returned codec c: to the
\* newTypeCodec that called it, or to Marshal / Unmarshal, which goes on to
\* use the codec
returnCodec(g, c) ==
  LET n == Len(thr[g].calls) IN
  IF n = 1 THEN [st |-> "use", calls |-> <<>>, res |-> <<c>>]
  ELSE [thr[g] EXCEPT !.calls = [SubSeq(thr[g].calls, 1, n - 1) EXCEPT
                                   ![n - 1].got = Append(@, c)]]

\* a Marshal or Unmarshal call of goroutine g reaches valueCodec with a
\* value of type t
Resolve(g, t) ==
  /\ thr[g].st = "idle"
  /\ thr' = [thr EXCEPT ![g] = [st |-> "resolving", calls |-> <<Call(t)>>,
                                res |-> <<>>]]
  /\ UNCHANGED <<codecCache, tmp, wg, callVars, fieldCache, calls>>

\* codecCache.Load(t), the first statement of typeCodec
Load(g) ==
  /\ thr[g].st = "resolving"
  /\ TopCall(g).at = "Load"
  /\ LET f == TopCall(g)
         e == codecCache[f.t]
     IN thr' = [thr EXCEPT ![g] = IF loaded(e) THEN returnCodec(g, CodecOf(f.t, e))
                                  ELSE atStmt(g, "LoadOrStore")]
  /\ UNCHANGED <<codecCache, tmp, wg, callVars, fieldCache, calls>>

\* wg.Add(1) and codecCache.LoadOrStore(t, recursiveWrapCoder{cp, &wg}); the
\* WaitGroup of a call whose placeholder is not stored is never used
LoadOrStore(g) ==
  /\ thr[g].st = "resolving"
  /\ TopCall(g).at = "LoadOrStore"
  /\ LET f == TopCall(g)
         e == codecCache[f.t]
     IN IF loaded(e)
        THEN /\ thr' = [thr EXCEPT ![g] = returnCodec(g, CodecOf(f.t, e))]
             /\ UNCHANGED <<codecCache, wg>>
        ELSE /\ codecCache' = [codecCache EXCEPT ![f.t] = newPlaceholder(g)]
             /\ wg' = [wg EXCEPT ![f.t][g] = 1]
             /\ thr' = [thr EXCEPT ![g] = atStmt(g, "newTypeCodec")]
  /\ UNCHANGED <<tmp, callVars, fieldCache, calls>>

\* tmp = newTypeCodec(t, true): the next typeCodec call it makes, or once
\* all have returned the assignment of the new codec to tmp
NewTypeCodec(g) ==
  /\ thr[g].st = "resolving"
  /\ TopCall(g).at = "newTypeCodec"
  /\ LET f == TopCall(g)
         ets == elemTypes(f.t)
     IN IF Len(f.got) < Len(ets)
        THEN /\ Len(thr[g].calls) < MaxDepth
             /\ thr' = [thr EXCEPT ![g].calls = Append(@, Call(ets[Len(f.got) + 1]))]
             /\ UNCHANGED tmp
        ELSE /\ tmp' = [tmp EXCEPT ![f.t][g] = <<f.got>>]
             /\ thr' = [thr EXCEPT ![g] = atStmt(g, "Done")]
  /\ UNCHANGED <<codecCache, wg, callVars, fieldCache, calls>>

\* wg.Done()
WgDone(g) ==
  /\ thr[g].st = "resolving"
  /\ TopCall(g).at = "Done"
  /\ wg' = [wg EXCEPT ![TopCall(g).t][g] = 0]
  /\ thr' = [thr EXCEPT ![g] = atStmt(g, "Store")]
  /\ UNCHANGED <<codecCache, tmp, callVars, fieldCache, calls>>

\* codecCache.Store(t, tmp) and return tmp
Store(g) ==
  /\ thr[g].st = "resolving"
  /\ TopCall(g).at = "Store"
  /\ codecCache' = [codecCache EXCEPT ![TopCall(g).t] = RealCodec(g)]
  /\ thr' = [thr EXCEPT ![g] = returnCodec(g, CodecOf(TopCall(g).t, RealCodec(g)))]
  /\ UNCHANGED <<tmp, wg, callVars, fieldCache, calls>>

\* encode / decode of the codec the call got.  For a recursiveWrapCoder
\* this is rw.wg.Wait(), which returns when the counter is 0, and then the
\* codec tmp holds is entered; any other codec is entered at once
Enter(g) ==
  /\ thr[g].st = "use"
  /\ LET c == thr[g].res[1] IN c.kind = "ph" => wg[c.t][c.by] = 0
  /\ thr' = [thr EXCEPT ![g].st = "typ"]
  /\ UNCHANGED <<codecCache, tmp, wg, callVars, fieldCache, calls>>

\* the fields of the field list of type t whose codec structCoder asks for
\* its typ(): those with a lengthref option
holders(t) ==
  IF Kind(t) # "Struct" THEN {}
  ELSE {i \in 1..Len(typeFields(Head(t))) :
          typeFields(Head(t))[i].tagOptions.lengthref # ""}

\* recursiveWrapCoder.typ() of the codec c: (*rw.elemCodec).typ() without a
\* Wait, a nil dereference while tmp is not assigned
typPanics(c) == c.kind = "ph" /\ tmp[c.t][c.by] = <<>>

\* the codec entered by the call: typ() of the codec of every field with a
\* lengthref option (the first loop of structCoder.decode, encodeLengthref
\* in structCoder.encode), after which the call returns.  A panic ends the
\* goroutine's call
Typ(g) ==
  /\ thr[g].st = "typ"
  /\ LET c == thr[g].res[1]
         fields == tmp[c.t][c.by][1]
     IN thr' = [thr EXCEPT ![g] =
                  IF \E i \in holders(c.t) : typPanics(fields[i])
                  THEN [@ EXCEPT !.st = "panic"]
                  ELSE IdleThread]
  /\ UNCHANGED <<codecCache, tmp, wg, callVars, fieldCache, calls>>

\* a step of goroutine g inside a call
Step(g) ==
  \/ Load(g)
  \/ LoadOrStore(g)
  \/ NewTypeCodec(g)
  \/ WgDone(g)
  \/ Store(g)
  \/ Enter(g)
  \/ Typ(g)

RegistryNext ==
  \/ \E g \in Threads, t \in TopTypes : Resolve(g, t)
  \/ \E g \in Threads : Load(g)
  \/ \E g \in Threads : LoadOrStore(g)
  \/ \E g \in Threads : NewTypeCodec(g)
  \/ \E g \in Threads : WgDone(g)
  \/ \E g \in Threads : Store(g)
  \/ \E g \in Threads : Enter(g)
  \/ \E g \in Threads : Typ(g)

RegistrySpec == Init /\ [][RegistryNext]_vars

\* the goroutines resolve the codecs of the recursive types only
RecursiveNext ==
  \/ \E g \in Threads, t \in RecursiveTops : Resolve(g, t)
  \/ \E g \in Threads : Load(g)
  \/ \E g \in Threads : LoadOrStore(g)
  \/ \E g \in Threads : NewTypeCodec(g)
  \/ \E g \in Threads : WgDone(g)
  \/ \E g \in Threads : Store(g)
  \/ \E g \in Threads : Enter(g)
  \/ \E g \in Threads : Typ(g)

\* weak fairness of the steps of every goroutine: the Go scheduler keeps
\* running a goroutine that can take a step (each step changes thr)
RecursiveSpec == Init /\ [][RecursiveNext]_vars /\ \A g \in Threads : WF_thr(Step(g))

\* the types that refer to themselves, directly or through each other
RecursiveTypes ==
  {<<"Node">>, <<"*", "Node">>, <<"RecA">>, <<"*", "RecA">>, <<"RecB">>, <<"*", "RecB">>}

\* the typeCodec calls of a goroutine nest no deeper than one call per type
\* and the call that finds the placeholder
NoRegress == \A g \in Threads : Len(thr[g].calls) <= Cardinality(RegTypes) + 1

\* C20: resolving the codec of a type that refers to itself, directly or
\* through other types, ends: the nesting of typeCodec calls stays bounded,
\* and no goroutine stays for ever inside typeCodec ("resolving") or in the
\* Wait of a placeholder ("use"): each is again and again outside both.
C20_ResolutionTerminates ==
  /\ []NoRegress
  /\ \A g \in Threads : []<>(thr[g].st \notin {"resolving", "use"})

\* a goroutine was handed the placeholder another goroutine stored for a
\* recursive type, and its Wait has returned
C20_Witness ==
  \E g \in Threads :
    /\ thr[g].st = "typ"
    /\ thr[g].res[1].t \in RecursiveTypes
    /\ thr[g].res[1].kind = "ph"
    /\ thr[g].res[1].by # g

\* the goroutines that have built a codec of type t
builders(t) == {g \in Threads : tmp[t][g] # <<>>}

\* the codecs typeCodec has handed out: to a Marshal / Unmarshal call, to a
\* newTypeCodec call in progress, and those kept inside the codecs built
handedOut ==
  UNION {{thr[g].res[i] : i \in 1..Len(thr[g].res)} : g \in Threads}
  \cup UNION {UNION {{thr[g].calls[i].got[j] : j \in 1..Len(thr[g].calls[i].got)}
                     : i \in 1..Len(thr[g].calls)} : g \in Threads}
  \cup UNION {UNION {{tmp[t][g][1][j] : j \in 1..Len(tmp[t][g][1])}
                     : g \in builders(t)} : t \in RegTypes}

\* at most one goroutine builds the codec of a type, and every codec handed
\* out for the type is the work of the goroutine whose entry the registry
\* holds: the codec it built, or the placeholder that points to its tmp
Converged ==
  /\ \A t \in RegTypes : Cardinality(builders(t)) <= 1
  /\ \A c \in handedOut :
       /\ codecCache[c.t].kind # "none"
       /\ codecCache[c.t].by = c.by
       /\ builders(c.t) \subseteq {c.by}
       /\ c.kind = "real" => tmp[c.t][c.by] # <<>>

\* a step leaves every entry that holds a built codec as it is
EntryKept ==
  \A t \in RegTypes : codecCache[t].kind = "real" => codecCache'[t] = codecCache[t]

\* C15: however the first resolutions of a type by several goroutines
\* interleave, its codec is built at most once, every resolver gets that
\* codec or the placeholder that forwards to it, and the registry entry of
\* the type does not change once it holds the built codec.
C15_OneCodecPerType == []Converged /\ [][EntryKept]_vars

\* two goroutines resolved the same type at the same time: one built the
\* codec, the other was handed the builder's placeholder
C15_Witness ==
  \E g, h \in Threads :
    /\ g # h
    /\ thr[g].st \in {"use", "typ"}
    /\ thr[h].st \in {"use", "typ"}
    /\ thr[g].res[1].t = thr[h].res[1].t
    /\ thr[g].res[1] = CodecOf(thr[g].res[1].t, RealCodec(g))
    /\ thr[h].res[1] = CodecOf(thr[g].res[1].t, Placeholder(g))

\* C19: every operation on a placeholder, the kind query typ() among them,
\* waits for the codec of the type to be built before it uses it: no
\* goroutine dereferences the tmp of a placeholder while it is not assigned
\* (the panic of Typ), and a goroutine past the Wait of a placeholder finds
\* tmp assigned.
C19_PlaceholderWaits ==
  \A g \in Threads :
    /\ thr[g].st # "panic"
    /\ (thr[g].st = "typ" /\ thr[g].res[1].kind = "ph")
         => tmp[thr[g].res[1].t][thr[g].res[1].by] # <<>>

\* ------------------------------------------- calls on the shared field cache
\* Goroutines call Marshal and Unmarshal on values of the same struct types
\* at the same time.  Each call has its own CodecState; the field list of a
\* struct type is the one cachedTypeFields returns to all of them.  A step is
\* one loop of structCoder, and the steps of the calls interleave.

\* the arguments of the calls: v is the struct value marshalled, or the one
\* the target of Unmarshal points to
StructCallInputs ==
  {[t |-> "LenStr", v |-> <<n, Str(s)>>, data |-> d] :
     n \in {0, 5}, s \in {"", "hi"}, d \in {<<2, 104, 105>>}}
  \cup {[t |-> "Pair", v |-> <<n, 258>>, data |-> d] :
          n \in {0, 3}, d \in {<<2, 1, 2>>}}

\* a call of goroutine g at step st: fc0 is the field cache it started with
CallAt(st, name, inp, fc0, r) ==
  [st |-> st, name |-> name, t |-> inp.t, v |-> inp.v, data |-> inp.data,
   fc0 |-> fc0, out |-> r.out, val |-> r.val, err |-> r.err]

\* what a call has to show before it returns
NoResult == [out |-> <<>>, val |-> <<>>, err |-> NoErr]

\* Unmarshal(data, &v) of goroutine g reaches structCoder.decode
UnmarshalBegin(g, inp) ==
  /\ calls[g].st = "idle"
  /\ calls' = [calls EXCEPT ![g] = CallAt("pass1", "Unmarshal", inp, fieldCache, NoResult)]
  /\ UNCHANGED <<fieldCache, callVars, regVars>>

\* the first loop of structCoder.decode, which stores the lengths in the
\* field list; a c.error in it starts the unwinding of the call
Pass1(g) ==
  /\ calls[g].st = "pass1"
  /\ \E p1 \in {DecPass1(calls[g].t, calls[g].v, 1, fieldCache)} :
       /\ fieldCache' = p1.fc
       /\ calls' = [calls EXCEPT ![g].st = IF p1.e = NoErr THEN "pass2" ELSE "unwind",
                                 ![g].val = calls[g].v,
                                 ![g].err = p1.e]
  /\ UNCHANGED <<callVars, regVars>>

\* the second loop of structCoder.decode, which decodes the fields with the
\* options the field list holds now
Pass2(g) ==
  /\ calls[g].st = "pass2"
  /\ \E r \in {DecFields(calls[g].t, calls[g].v, 1, TRUE,
                         DSt(calls[g].data, fieldCache, 0), [res |-> <<>>])} :
       calls' = [calls EXCEPT ![g].st = IF r.st = "ok" THEN "return" ELSE "unwind",
                              ![g].val = r.val,
                              ![g].err = r.e]
  /\ UNCHANGED <<fieldCache, callVars, regVars>>

\* Marshal(v) of goroutine g reaches structCoder.encode
MarshalBegin(g, inp) ==
  /\ calls[g].st = "idle"
  /\ calls' = [calls EXCEPT ![g] = CallAt("encode", "Marshal", inp, fieldCache, NoResult)]
  /\ UNCHANGED <<fieldCache, callVars, regVars>>

\* the loop of structCoder.encode, with the options the field list holds now
EncodeLoop(g) ==
  /\ calls[g].st = "encode"
  /\ \E r \in {Encode(<<calls[g].t>>, calls[g].v, NoTag, <<>>, 0,
                      [res |-> <<>>, fc |-> fieldCache, heap |-> <<>>, can |-> FALSE])} :
       calls' = [calls EXCEPT ![g].st = IF r.st = "ok" THEN "return" ELSE "unwind",
                              ![g].out = r.buf,
                              ![g].err = r.e]
  /\ UNCHANGED <<fieldCache, callVars, regVars>>

\* the panic of c.error reaches the recover of CodecState.code, and the call
\* returns the error
Unwind(g) ==
  /\ calls[g].st = "unwind"
  /\ calls' = [calls EXCEPT ![g].st = "return"]
  /\ UNCHANGED <<fieldCache, callVars, regVars>>

\* the caller has the result and goes on to its next call
CallReturn(g) ==
  /\ calls[g].st = "return"
  /\ calls' = [calls EXCEPT ![g] = IdleCall]
  /\ UNCHANGED <<fieldCache, callVars, regVars>>

SharedCacheNext ==
  \/ \E g \in Threads, inp \in StructCallInputs : UnmarshalBegin(g, inp)
  \/ \E g \in Threads : Pass1(g)
  \/ \E g \in Threads : Pass2(g)
  \/ \E g \in Threads, inp \in StructCallInputs : MarshalBegin(g, inp)
  \/ \E g \in Threads : EncodeLoop(g)
  \/ \E g \in Threads : Unwind(g)
  \/ \E g \in Threads : CallReturn(g)

SharedCacheSpec == Init /\ [][SharedCacheNext]_vars

\* the result of the call c run with no other call in progress, from the
\* field cache it started with
Alone(c) ==
  IF c.name = "Marshal"
  THEN LET r == Encode(<<c.t>>, c.v, NoTag, <<>>, 0,
                       [res |-> <<>>, fc |-> c.fc0, heap |-> <<>>, can |-> FALSE])
       IN [out |-> r.buf, val |-> <<>>, err |-> r.e]
  ELSE LET r == structDecode(<<c.t>>, c.v, TRUE, DSt(c.data, c.fc0, 0), [res |-> <<>>])
       IN [out |-> <<>>, val |-> r.val, err |-> r.e]

\* C16: calls that run at the same time on values of one struct type each
\* return what they would return run alone: a call never reads what another
\* call in progress wrote.
C16_AsIfAlone ==
  \A g \in Threads :
    calls[g].st = "return" =>
      [out |-> calls[g].out, val |-> calls[g].val, err |-> calls[g].err] = Alone(calls[g])

\* C21: no Marshal or Unmarshal call changes a field list the field cache
\* holds: in every reachable state the length, lengthref and encoding options
\* of every cached field are the ones parseTag made of the field's tag.
C21_CacheImmutable ==
  \A n \in StructNames : fieldCache[n] = typeFields(n)

\* C22: at every point of a traversal ptrSeen holds exactly the pointers of
\* the ptrCoder calls on the active call path that were entered beyond
\* startDetectingCyclesAfter and have not returned; its size is
\* max(0, ptrLevel - startDetectingCyclesAfter), and a pointer whose call has
\* returned is not in it.
C22_GuardIsCallPath ==
  pc \in {"enc", "dec", "hang"} =>
    /\ ptrLevel = Len(stack) - 1
    /\ ptrSeen = trackedKeys(stack)
    /\ Cardinality(ptrSeen) = Max({0, ptrLevel - startDetectingCyclesAfter})

\* Marshal is one level beyond the threshold, in a call that has made a
\* deeper call which has returned: only the pointer of the call itself is
\* tracked
C22_Witness ==
  /\ pc = "enc"
  /\ ptrLevel = startDetectingCyclesAfter + 1
  /\ stack[Len(stack)].res # <<>>
  /\ ptrSeen = {frameKey(stack[Len(stack)])}

\* a Marshal or Unmarshal call gets its CodecState and enters the codec
CallStarts == pc = "idle" /\ pc' \in {"enc", "dec"}

\* C23: ptrSeen is empty when a Marshal or Unmarshal call starts and when it
\* has ended, with or without an error, and the call starts at ptrLevel 0
\* whatever the calls before it left behind: no tracked pointer and no depth
\* count of one call is seen by another.
C23_GuardPerCall ==
  /\ [](pc = "idle" => ptrSeen = {})
  /\ [][CallStarts => (ptrSeen' = {} /\ ptrLevel' = 0)]_vars

\* Marshal has failed beyond the threshold with the cycle error: the pointers
\* it tracked are gone, the depth count it reached is still in its CodecState
C23_Witness ==
  /\ Done("Marshal")
  /\ err = cycleError(op.t)
  /\ ptrLevel > startDetectingCyclesAfter
  /\ ptrSeen = {}

\* the types of the Unmarshal targets that refer to themselves
SelfRefTargets == {<<"*", "Node">>}

\* two nested ptrCoder.decode calls, the inner one for a pointer the decode
\* has just set to a new zero value, that start from the same type, value,
\* options and unread bytes: the inner call does what the outer did, and so
\* does the call it makes in turn, without end
Regress(i, j) ==
  /\ i < j
  /\ stack[i].p = stack[j].p
  /\ stack[i].v = stack[j].v
  /\ stack[i].opts = stack[j].opts
  /\ stack[i].buf = stack[j].buf
  /\ stack[i].fc = stack[j].fc
  /\ stack[j].v = Zero(Elem(stack[j].p))
  /\ stack[j].a > Len(op.w)

\* C24: Unmarshal into a target of a type that refers to itself (Node, whose
\* first field is a *Node, nil in the target) ends for every input with a
\* result or an error: the nesting of the decode calls does not regress, a
\* call never starting again from what an enclosing call started from.
C24_SelfRefDecodeEnds ==
  (pc = "dec" /\ op.t \in SelfRefTargets) =>
    \A i, j \in 2..Len(stack) : ~Regress(i, j)

\* C25: decoding a [2]uint8 from a region of k one-byte elements stores
\* element i in slot i for i < min(k, 2), stops when both slots are filled
\* although bytes remain, and leaves the slots from k on at zero.
C25_ArraySlots ==
  (Done("Unmarshal") /\ op.t = <<"*", "[2]", "uint8">> /\ op.v # 0) =>
    /\ err = NoErr
    /\ \A i \in 1..2 : heap[op.v][i] = IF i <= Len(op.data) THEN op.data[i] ELSE 0

\* C26: a container with no fixed length takes all the bytes left in the
\* parent region and removes them from it, so a later sibling field finds
\* none of them.  SlTail is {S []uint8; T uint8}: decoding it from bytes that
\* all go to S leaves nothing for T, whose decode fails for lack of data and
\* leaves T as it was.
C26_RegionRemoved ==
  (Done("Unmarshal") /\ op.t = <<"*", "SlTail">> /\ op.v # 0 /\ op.data # <<>>) =>
    /\ err # NoErr
    /\ heap[op.v][2] = op.w[op.v][2]

\* C27: for a struct with a field tagged lengthref:X and no field named X,
\* Marshal and Unmarshal both fail with a TagErr, Marshal returning no bytes
\* and Unmarshal storing nothing.  LenNone is {Len uint8 lengthref:Nope;
\* Data string}.
C27_UnresolvedLengthref ==
  /\ (Done("Marshal") /\ op.t = <<"LenNone">>) =>
       (err.kind = "TagErr" /\ out = <<>>)
  /\ (Done("Unmarshal") /\ op.t = <<"*", "LenNone">> /\ op.v # 0) =>
       (err.kind = "TagErr" /\ heap = op.w)

\* Marshal(op.v) as the first call of the process: the walk of the value from
\* the field lists typeFields makes ("need" when it meets a non-nil pointer)
FirstMarshal ==
  Encode(op.t, op.v, NoTag, <<>>, 0,
         [res |-> <<>>, fc |-> InitFieldCache, heap |-> heap, can |-> FALSE])

\* C28: Marshal(v) returns the same bytes, or the same error, whatever calls
\* of Marshal and Unmarshal were completed before it: here, for the values
\* that hold no non-nil pointer, what it returns as the first call.
C28_MarshalOfArgumentOnly ==
  (Done("Marshal") /\ FirstMarshal.st # "need") =>
    /\ err = FirstMarshal.e
    /\ out = IF FirstMarshal.st = "ok" THEN FirstMarshal.buf ELSE <<>>

\* the element types of the container targets whose decode takes no byte
\* from a region that is not empty: a nil interface, a string with no length
ZeroWidthElems == {<<"interface">>, <<"string">>}

\* C29: decoding a slice or an array ends for every input, also when the
\* decode of an element takes no byte from a region that still holds bytes:
\* Unmarshal into a slice or array of such elements is never inside a loop
\* that does not end.
C29_ContainerDecodeEnds ==
  (/\ op.name = "Unmarshal"
   /\ Len(op.t) >= 3
   /\ Kind(Elem(op.t)) \in {"Slice", "Array"}
   /\ Elem(Elem(op.t)) \in ZeroWidthElems)
  => pc # "hang"

\* C30: when the target of a lengthref has more bytes than the holder's type
\* can count, Marshal fails or writes the true count, never a wrapped one.
\* For LenData, {Len uint8 lengthref:Data; Data string}, and a Data of more
\* than 255 bytes: the call fails, or the holder bytes in front of Data's
\* bytes read back as the number of bytes of Data.
C30_NoWrappedLength ==
  (Done("Marshal") /\ op.t = <<"LenData">> /\ Len(op.v[2]) > 255) =>
    \/ err # NoErr
    \/ /\ Len(out) > Len(op.v[2])
       /\ UBE(SubSeq(out, 1, Len(out) - Len(op.v[2]))) = Len(op.v[2])

====
